---------------------------- MODULE Spec2Model ----------------------------
(***************************************************************************)
(* Simulation core of "Cyber Defender" (src/App.tsx).  The file holds two  *)
(* variants of the same game:                                              *)
(*   variant 1: the first App (lines 310-730), React state + updaters;     *)
(*   variant 2: the second App (lines 871-1243), refs mutated in place.    *)
(* One behaviour of the model runs one variant, chosen in Init.            *)
(*                                                                         *)
(* Variant 1 is modelled on a coarse grid: lengths are counted in cells,   *)
(* timers in ticks, and the level is a reduced level with the shipped      *)
(* kinds of entities, their ids, list order and links.  The constants keep *)
(* the source's names; their values are the source's values on that grid,  *)
(* chosen so that the order relations of the source hold (speed < player   *)
(* width < player height, jump height < firewall height, projectile speed  *)
(* <= enemy width, ...).                                                   *)
(*                                                                         *)
(* A tick of variant 1 is one call of gameLoop.  The values the callback   *)
(* closes over (gameState, player.x, lives, level, enemies, projectiles,   *)
(* cameraX) are those of the render before the tick; the updaters passed   *)
(* to setPlayer/setEnemies/... run in the order React queues them.         *)
(*                                                                         *)
(* The mentor message (showMessage) is display state owned by the UI: the  *)
(* simulation never reads it, and it is not part of the model.             *)
(***************************************************************************)
EXTENDS Integers, Sequences, FiniteSets, TLC

\* ------------------------------------------------------------------------
\* Bounds of the model
\* ------------------------------------------------------------------------
\* player-owned projectiles in flight (variant 1: key-up events of 'x')
MaxProjectiles == 1
\* the same bound for a session over the arena
MaxVolley == 2
\* variant 2: gameLoop runs while gameEntities holds at most this many entries
MaxRegistry == 48

\* ------------------------------------------------------------------------
\* Variant 1: constants (src/App.tsx lines 68-76 and literals of gameLoop)
\* ------------------------------------------------------------------------
WIDTH == 8
HEIGHT == 8
PLAYER_WIDTH == 2
PLAYER_HEIGHT == 3
PLAYER_SPEED == 1
GRAVITY == 1
JUMP_FORCE == -3
LEVEL_WIDTH == 13

SPAWN_X == 1
SPAWN_Y == 3
INITIAL_LIVES == 3
OOB_MARGIN == 1
HIT_INVINCIBLE_TICKS == 1
POWERUP_INVINCIBLE_TICKS == 2
\* the same grace window on the finer time scale of the pit level, where it
\* outlasts a fall from the spawn point as the source's 120 ticks do
PIT_INVINCIBLE_TICKS == 5
SPAMBOT_RANGE == 4
SPAMBOT_COOLDOWN == 2
SPAMBOT_SHOT_SPEED == 4
SPAMBOT_SHOT_DY == 1
BOSS_THRESHOLD_X == 10
BOSS_WALL_ID == 999
BOSS_COOLDOWN == 2
KING_HEALTH == 2
BOSS_SHOT_DY == 1
BOSS_SHOT_SPEED_A == 3
BOSS_SHOT_SPEED_B == 2
PROJECTILE_SIZE == 1
PLAYER_SHOT_SPEED == 4
PARTICLE_OPACITY == 1
CAMERA_SMOOTHING_DIV == 10

Powerups == {"weapon", "shield", "invincibility", "life"}
\* keysRef.current as the tick reads it: the keys the player logic reads
\* (ArrowLeft/a, ArrowRight/d, ArrowUp/w) and the key the consoles read
MoveKeys == {"left", "right", "up"}
InteractKeys == {"e"}
MoveKeySets == {k \in SUBSET MoveKeys : ~({"left", "right"} \subseteq k)}
KeySets == {mk \cup ik : mk \in MoveKeySets, ik \in SUBSET InteractKeys}

\* An optional number field (health?: number): <<>> is undefined.
Undefined == <<>>
Some(n) == <<n>>
\* e.health ?? 1
Coalesce(h, d) == IF h = Undefined THEN d ELSE h[1]

Abs(n) == IF n < 0 THEN -n ELSE n
Max(a, b) == IF a > b THEN a ELSE b
Min(a, b) == IF a < b THEN a ELSE b

\* ------------------------------------------------------------------------
\* Variant 1: level data (reduced level, same kinds, ids, order and links)
\* ------------------------------------------------------------------------
LevelEntityObject(id, type, x, y, w, h, linked, active) ==
  [id |-> id, type |-> type, x |-> x, y |-> y, width |-> w, height |-> h,
   hit |-> FALSE, linkedElementId |-> linked, active |-> active,
   collected |-> FALSE]

\* the gate with console 12 linked to the boss wall
GateLevelWallLinked ==
  << LevelEntityObject(1, "platform", 0, 7, 9, 1, 0, FALSE),
     LevelEntityObject(101, "log", 1, 6, 1, 1, 0, FALSE),
     LevelEntityObject(10, "firewall", 6, 3, 1, 4, 0, TRUE),
     LevelEntityObject(12, "console", 4, 6, 1, 1, 999, FALSE),
     LevelEntityObject(23, "platform", 10, 7, 3, 1, 0, FALSE),
     LevelEntityObject(999, "firewall", 9, 2, 1, 5, 0, TRUE),
     LevelEntityObject(25, "goal", 12, 6, 1, 1, 0, FALSE) >>

\* the gate: floor, log, console 12 and its firewall 10, boss arena
GateLevel ==
  << LevelEntityObject(1, "platform", 0, 7, 9, 1, 0, FALSE),
     LevelEntityObject(101, "log", 1, 6, 1, 1, 0, FALSE),
     LevelEntityObject(10, "firewall", 6, 3, 1, 4, 0, TRUE),
     LevelEntityObject(12, "console", 4, 6, 1, 1, 10, FALSE),
     LevelEntityObject(23, "platform", 10, 7, 3, 1, 0, FALSE),
     LevelEntityObject(999, "firewall", 9, 2, 1, 5, 0, TRUE),
     LevelEntityObject(25, "goal", 12, 6, 1, 1, 0, FALSE) >>

\* the boxes: floor, two neighbouring power-up boxes, a firewall
BoxLevel ==
  << LevelEntityObject(1, "platform", 0, 7, 9, 1, 0, FALSE),
     LevelEntityObject(4, "power-up-box", 2, 1, 1, 1, 0, FALSE),
     LevelEntityObject(16, "power-up-box", 3, 1, 1, 1, 0, FALSE),
     LevelEntityObject(10, "firewall", 6, 3, 1, 4, 0, TRUE) >>

EnemyObject(id, type, x, y, w, h, ps, pe, vx, dir, cd, health, maxHealth) ==
  [id |-> id, type |-> type, x |-> x, y |-> y, width |-> w, height |-> h,
   patrolStart |-> ps, patrolEnd |-> pe, vx |-> vx, direction |-> dir,
   shootCooldown |-> cd, health |-> health, maxHealth |-> maxHealth]

GateEnemies ==
  << EnemyObject(6, "The Adware King", 11, 2, 2, 2, 1, 4, 0, "down",
                 BOSS_COOLDOWN, Some(KING_HEALTH), Some(KING_HEALTH)) >>

BoxEnemies ==
  << EnemyObject(5, "Spam-bot", 7, 1, 2, 3, 0, 0, 0, "left",
                 SPAMBOT_COOLDOWN, Undefined, Undefined) >>

\* the arena: floor, a power-up box, the goal, and the boss in the line of fire
ArenaLevel ==
  << LevelEntityObject(1, "platform", 0, 7, 9, 1, 0, FALSE),
     LevelEntityObject(4, "power-up-box", 2, 1, 1, 1, 0, FALSE),
     LevelEntityObject(25, "goal", 5, 6, 1, 1, 0, FALSE) >>

ArenaEnemies ==
  << EnemyObject(6, "The Adware King", 7, 1, 2, 3, 1, 4, 0, "down",
                 BOSS_COOLDOWN, Some(KING_HEALTH), Some(KING_HEALTH)) >>

\* the tall box: floor and a power-up box as tall as the player, right of
\* the spawn point, its underside a jump's first tick above the floor
TallBoxLevel ==
  << LevelEntityObject(1, "platform", 0, 7, 9, 1, 0, FALSE),
     LevelEntityObject(4, "power-up-box", 4, 0, 1, 3, 0, FALSE) >>

NoEnemies == << >>

\* the orphans: floor, a console linked to an id no entity has, and a
\* console linked to the floor
OrphanLevel ==
  << LevelEntityObject(1, "platform", 0, 7, 9, 1, 0, FALSE),
     LevelEntityObject(12, "console", 2, 6, 1, 1, 77, FALSE),
     LevelEntityObject(13, "console", 5, 6, 1, 1, 1, FALSE) >>

\* the pit: a ledge that starts under the spawn point, nothing left of it,
\* and a Mini-Virus patrolling the ledge
PitLevel ==
  << LevelEntityObject(1, "platform", 1, 7, 5, 1, 0, FALSE) >>

PitEnemies ==
  << EnemyObject(2, "Mini-Virus", 3, 6, 1, 1, 2, 6, -1, "left",
                 0, Undefined, Undefined) >>

\* the player projectiles in flight that a session over level lvl allows
Volley(lvl) == IF lvl = ArenaLevel THEN MaxVolley ELSE MaxProjectiles

\* ------------------------------------------------------------------------
\* Helpers
\* ------------------------------------------------------------------------
Rect(x, y, w, h) == [x |-> x, y |-> y, width |-> w, height |-> h]

checkCollision(a, b) ==
  /\ a.x < b.x + b.width
  /\ a.x + a.width > b.x
  /\ a.y < b.y + b.height
  /\ a.y + a.height > b.y

PlayerRect(p) == Rect(p.x, p.y, PLAYER_WIDTH, PLAYER_HEIGHT)
ProjectileRect(pr) == Rect(pr.x, pr.y, PROJECTILE_SIZE, PROJECTILE_SIZE)

\* PlayerState without vx: every tick overwrites vx (line 365) before any
\* code reads it, so the stored value never influences the game
InitialPlayer ==
  [x |-> SPAWN_X, y |-> SPAWN_Y, vy |-> 0, onGround |-> FALSE,
   direction |-> "right", hasWeapon |-> FALSE, hasShield |-> FALSE,
   isInvincible |-> FALSE, invincibleTimer |-> 0]

VARIABLES
  variant,        \* 1 or 2: which App runs
  gameState,      \* useState<GameState> / useState<'start' | ...>
  lives,          \* useState(3)
  cameraX,        \* useState(0)
  particles,      \* variant 1: opacity, variant 2: width of each particle
  levelData,      \* const levelData, the level template
  player,         \* variant 1: useState<PlayerState>
  enemies,        \* variant 1: useState<EnemyObject[]>
  level,          \* variant 1: useState<LevelEntityObject[]>
  projectiles,    \* variant 1: useState<Projectile[]>
  initialEnemies, \* variant 1: const initialEnemies, the enemy template
  playerState,    \* variant 2: playerState.current
  gameEntities,   \* variant 2: gameEntities.current, an array of references
  objects,        \* variant 2: the objects the references name
  hasShield,      \* variant 2: useState(false)
  hasWeapon,      \* variant 2: useState(false)
  isInvincible,   \* variant 2: useState(false)
  invincibleTimer,\* variant 2: invincibleTimer.current names a pending timeout
  shootCooldown,  \* variant 2: locals of the game-loop effect
  spambotCooldown,
  bossCooldown

vars1 == << player, enemies, level, projectiles, initialEnemies >>

vars2 == << playerState, gameEntities, objects, hasShield, hasWeapon,
            isInvincible, invincibleTimer, shootCooldown, spambotCooldown,
            bossCooldown >>

vars == << variant, gameState, lives, cameraX, particles, levelData, vars1,
           vars2 >>

templates == << levelData, initialEnemies >>

\* ------------------------------------------------------------------------
\* Folds over arrays (forEach / map / filter / some)
\* ------------------------------------------------------------------------
RECURSIVE SumSeq(_)
SumSeq(s) == IF s = << >> THEN 0 ELSE Head(s) + SumSeq(Tail(s))

RECURSIVE FlatSeq(_)
FlatSeq(ss) == IF ss = << >> THEN << >> ELSE Head(ss) \o FlatSeq(Tail(ss))

\* the elements of s whose index satisfies keep
RECURSIVE KeepIdx(_, _, _)
KeepIdx(s, keep, i) ==
  IF i > Len(s) THEN << >>
  ELSE (IF keep[i] THEN << s[i] >> ELSE << >>) \o KeepIdx(s, keep, i + 1)

\* the collision pass without the firewalls
CollidePlatformsOnly(entity, x, y, acc) ==
  IF entity.type # "platform" THEN acc
  ELSE IF ~checkCollision(Rect(acc.newX, acc.newY, PLAYER_WIDTH, PLAYER_HEIGHT),
                          entity) THEN acc
  ELSE IF y + PLAYER_HEIGHT <= entity.y /\ acc.newY + PLAYER_HEIGHT > entity.y
       THEN [acc EXCEPT !.newY = entity.y - PLAYER_HEIGHT, !.vy = 0,
                        !.onGround = TRUE]
  ELSE IF y >= entity.y + entity.height /\ acc.newY < entity.y + entity.height
       THEN [acc EXCEPT !.newY = entity.y + entity.height, !.vy = 0]
  ELSE IF x + PLAYER_WIDTH <= entity.x /\ acc.newX + PLAYER_WIDTH > entity.x
       THEN [acc EXCEPT !.newX = entity.x - PLAYER_WIDTH]
  ELSE IF x >= entity.x + entity.width /\ acc.newX < entity.x + entity.width
       THEN [acc EXCEPT !.newX = entity.x + entity.width]
  ELSE acc

\* one iteration of "Collision with level" that tries the horizontal
\* branches before the vertical ones
CollideSideFirst(entity, x, y, acc) ==
  IF entity.type # "platform" /\ entity.type # "firewall" THEN acc
  ELSE IF entity.type = "firewall" /\ ~entity.active THEN acc
  ELSE IF ~checkCollision(Rect(acc.newX, acc.newY, PLAYER_WIDTH, PLAYER_HEIGHT),
                          entity) THEN acc
  ELSE IF x + PLAYER_WIDTH <= entity.x /\ acc.newX + PLAYER_WIDTH > entity.x
       THEN [acc EXCEPT !.newX = entity.x - PLAYER_WIDTH]
  ELSE IF x >= entity.x + entity.width /\ acc.newX < entity.x + entity.width
       THEN [acc EXCEPT !.newX = entity.x + entity.width]
  ELSE IF y + PLAYER_HEIGHT <= entity.y /\ acc.newY + PLAYER_HEIGHT > entity.y
       THEN [acc EXCEPT !.newY = entity.y - PLAYER_HEIGHT, !.vy = 0,
                        !.onGround = TRUE]
  ELSE IF y >= entity.y + entity.height /\ acc.newY < entity.y + entity.height
       THEN [acc EXCEPT !.newY = entity.y + entity.height, !.vy = 0]
  ELSE acc

\* one iteration of "Collision with level" whose landing branch leaves
\* onGround alone
CollideNoGround(entity, x, y, acc) ==
  IF entity.type # "platform" /\ entity.type # "firewall" THEN acc
  ELSE IF entity.type = "firewall" /\ ~entity.active THEN acc
  ELSE IF ~checkCollision(Rect(acc.newX, acc.newY, PLAYER_WIDTH, PLAYER_HEIGHT),
                          entity) THEN acc
  ELSE IF y + PLAYER_HEIGHT <= entity.y /\ acc.newY + PLAYER_HEIGHT > entity.y
       THEN [acc EXCEPT !.newY = entity.y - PLAYER_HEIGHT, !.vy = 0]
  ELSE IF y >= entity.y + entity.height /\ acc.newY < entity.y + entity.height
       THEN [acc EXCEPT !.newY = entity.y + entity.height, !.vy = 0]
  ELSE IF x + PLAYER_WIDTH <= entity.x /\ acc.newX + PLAYER_WIDTH > entity.x
       THEN [acc EXCEPT !.newX = entity.x - PLAYER_WIDTH]
  ELSE IF x >= entity.x + entity.width /\ acc.newX < entity.x + entity.width
       THEN [acc EXCEPT !.newX = entity.x + entity.width]
  ELSE acc

\* ------------------------------------------------------------------------
\* Variant 1, gameLoop: player logic (first setPlayer updater)
\* ------------------------------------------------------------------------
\* one iteration of level.forEach in "Collision with level"; acc holds the
\* locals newX, newY, vy, onGround, and x, y are the position before the move
CollideEntity(entity, x, y, acc) ==
  IF entity.type # "platform" /\ entity.type # "firewall" THEN acc
  ELSE IF entity.type = "firewall" /\ ~entity.active THEN acc
  ELSE IF ~checkCollision(Rect(acc.newX, acc.newY, PLAYER_WIDTH, PLAYER_HEIGHT),
                          entity) THEN acc
  ELSE IF y + PLAYER_HEIGHT <= entity.y /\ acc.newY + PLAYER_HEIGHT > entity.y
       THEN [acc EXCEPT !.newY = entity.y - PLAYER_HEIGHT, !.vy = 0,
                        !.onGround = TRUE]
  ELSE IF y >= entity.y + entity.height /\ acc.newY < entity.y + entity.height
       THEN [acc EXCEPT !.newY = entity.y + entity.height, !.vy = 0]
  ELSE IF x + PLAYER_WIDTH <= entity.x /\ acc.newX + PLAYER_WIDTH > entity.x
       THEN [acc EXCEPT !.newX = entity.x - PLAYER_WIDTH]
  ELSE IF x >= entity.x + entity.width /\ acc.newX < entity.x + entity.width
       THEN [acc EXCEPT !.newX = entity.x + entity.width]
  ELSE acc

RECURSIVE CollideLevel(_, _, _, _, _)
CollideLevel(lvl, i, x, y, acc) ==
  IF i > Len(lvl) THEN acc
  ELSE CollideLevel(lvl, i + 1, x, y, CollideEntity(lvl[i], x, y, acc))

\* The first updater.  keys: the keys held; lvl, lv: the level and lives the
\* callback closed over.  Result: the new player, the box after collision
\* resolution, whether a life was lost and whether 'lose' was set.
PlayerLogic(p, keys, lvl, lv) ==
  LET vx0 == IF "right" \in keys THEN PLAYER_SPEED
             ELSE IF "left" \in keys THEN -PLAYER_SPEED ELSE 0
      dir == IF "right" \in keys THEN "right"
             ELSE IF "left" \in keys THEN "left" ELSE p.direction
      jump == "up" \in keys /\ p.onGround
      vy0 == (IF jump THEN JUMP_FORCE ELSE p.vy) + GRAVITY
      timer == IF p.isInvincible THEN p.invincibleTimer - 1
               ELSE p.invincibleTimer
      inv == IF p.isInvincible THEN ~(timer <= 0) ELSE FALSE
      acc == CollideLevel(lvl, 1, p.x, p.y,
                          [newX |-> p.x + vx0, newY |-> p.y + vy0,
                           vy |-> vy0, onGround |-> FALSE])
      oob == acc.newY > HEIGHT + OOB_MARGIN
      lose == oob /\ lv - 1 <= 0
      moved == [p EXCEPT !.x = acc.newX, !.y = acc.newY,
                         !.vy = acc.vy, !.onGround = acc.onGround,
                         !.direction = dir, !.isInvincible = inv,
                         !.invincibleTimer = timer]
      respawned == [p EXCEPT !.x = SPAWN_X, !.y = SPAWN_Y, !.vy = 0]
  IN [p |-> IF oob /\ ~lose THEN respawned ELSE moved,
      box |-> Rect(acc.newX, acc.newY, PLAYER_WIDTH, PLAYER_HEIGHT),
      lifeLost |-> oob, lose |-> lose]


\* ------------------------------------------------------------------------
\* Variant 1, gameLoop: enemy logic (the setEnemies updater)
\* ------------------------------------------------------------------------
\* level.find(l => l.id === id): the index of the first match, 0 for none
RECURSIVE FindIndex(_, _, _)
FindIndex(lvl, id, i) ==
  IF i > Len(lvl) THEN 0
  ELSE IF lvl[i].id = id THEN i ELSE FindIndex(lvl, id, i + 1)

\* level.find(l => l.id === 999)?.active
BossWallActive(lvl) ==
  LET i == FindIndex(lvl, BOSS_WALL_ID, 1) IN i # 0 /\ lvl[i].active

Projectile(x, y, vx, owner) == [x |-> x, y |-> y, vx |-> vx, owner |-> owner]

MiniVirusStep(e) ==
  LET x1 == e.x + e.vx
      lo == x1 < e.patrolStart
      x2 == IF lo THEN e.patrolStart ELSE x1
      vx2 == IF lo THEN -e.vx ELSE e.vx
      d2 == IF lo THEN "right" ELSE e.direction
      hi == x2 + e.width > e.patrolEnd
  IN [e EXCEPT !.x = IF hi THEN e.patrolEnd - e.width ELSE x2,
               !.vx = IF hi THEN -vx2 ELSE vx2,
               !.direction = IF hi THEN "left" ELSE d2]

SpamBotFires(e, playerX) ==
  Abs(playerX - e.x) < SPAMBOT_RANGE /\ e.shootCooldown <= 0

SpamBotStep(e, playerX) ==
  LET cd1 == IF SpamBotFires(e, playerX) THEN SPAMBOT_COOLDOWN
             ELSE e.shootCooldown
  IN [e EXCEPT !.shootCooldown = IF cd1 > 0 THEN cd1 - 1 ELSE cd1]

SpamBotShots(e, playerX) ==
  IF SpamBotFires(e, playerX)
  THEN << Projectile(e.x, e.y + SPAMBOT_SHOT_DY,
                     IF playerX < e.x THEN -SPAMBOT_SHOT_SPEED
                     ELSE SPAMBOT_SHOT_SPEED, "enemy") >>
  ELSE << >>

BossActive(playerX, lvl) == playerX > BOSS_THRESHOLD_X /\ BossWallActive(lvl)

\* the boss's step without the activation test
BossStepAlways(e, playerX, lvl) ==
  LET y1 == IF e.direction = "down" THEN e.y + 1 ELSE e.y - 1
      d1 == IF y1 < e.patrolStart THEN "down" ELSE e.direction
      d2 == IF y1 > e.patrolEnd THEN "up" ELSE d1
      cd1 == IF e.shootCooldown <= 0 THEN BOSS_COOLDOWN
             ELSE e.shootCooldown
  IN [e EXCEPT !.y = y1, !.direction = d2,
               !.shootCooldown = IF cd1 > 0 THEN cd1 - 1 ELSE cd1]

BossStep(e, playerX, lvl) ==
  IF ~BossActive(playerX, lvl) THEN e
  ELSE LET y1 == IF e.direction = "down" THEN e.y + 1 ELSE e.y - 1
           d1 == IF y1 < e.patrolStart THEN "down" ELSE e.direction
           d2 == IF y1 > e.patrolEnd THEN "up" ELSE d1
           cd1 == IF e.shootCooldown <= 0 THEN BOSS_COOLDOWN
                  ELSE e.shootCooldown
       IN [e EXCEPT !.y = y1, !.direction = d2,
                    !.shootCooldown = IF cd1 > 0 THEN cd1 - 1 ELSE cd1]

BossShots(e, playerX, lvl) ==
  IF BossActive(playerX, lvl) /\ e.shootCooldown <= 0
  THEN << Projectile(e.x, e.y + BOSS_SHOT_DY, -BOSS_SHOT_SPEED_A, "enemy"),
          Projectile(e.x, e.y + BOSS_SHOT_DY, -BOSS_SHOT_SPEED_B, "enemy") >>
  ELSE << >>

\* the body of prevEnemies.map
EnemyStep(e, playerX, lvl) ==
  IF e.type = "Mini-Virus" THEN MiniVirusStep(e)
  ELSE IF e.type = "Spam-bot" THEN SpamBotStep(e, playerX)
  ELSE BossStep(e, playerX, lvl)

EnemyShots(e, playerX, lvl) ==
  IF e.type = "Spam-bot" THEN SpamBotShots(e, playerX)
  ELSE IF e.type = "The Adware King" THEN BossShots(e, playerX, lvl)
  ELSE << >>

\* .filter(e => (e.health ?? 1) > 0)
Alive(e) == Coalesce(e.health, 1) > 0

\* prev is the queued enemies state; playerX and lvl are closed over
EnemyLogic(prev, playerX, lvl) ==
  SelectSeq([i \in 1..Len(prev) |-> EnemyStep(prev[i], playerX, lvl)], Alive)

EnemyLogicShots(prev, playerX, lvl) ==
  FlatSeq([i \in 1..Len(prev) |-> EnemyShots(prev[i], playerX, lvl)])

\* ------------------------------------------------------------------------
\* Variant 1, gameLoop: collision detection (second setPlayer updater)
\* ------------------------------------------------------------------------
\* the closed-over enemy projectiles that overlap player p
HitsPlayer(p, proj) ==
  proj.owner = "enemy" /\ checkCollision(PlayerRect(p), ProjectileRect(proj))

TouchesEnemy(p, ens) ==
  \E i \in 1..Len(ens) : checkCollision(PlayerRect(p), ens[i])

PlayerHit(p, ens, projs) ==
  \/ TouchesEnemy(p, ens)
  \/ \E i \in 1..Len(projs) : HitsPlayer(p, projs[i])

\* invincibleTimer: 120 (lines 491, 495), in ticks of the level played
HitTicks ==
  IF levelData = PitLevel THEN PIT_INVINCIBLE_TICKS ELSE HIT_INVINCIBLE_TICKS

\* Result: the new player, whether the updater went past the invincibility
\* return, whether a life was lost, whether 'lose' was set
CollisionDetection(p, ens, projs, lv) ==
  IF p.isInvincible
  THEN [p |-> p, checked |-> FALSE, lifeLost |-> FALSE, lose |-> FALSE]
  ELSE IF ~PlayerHit(p, ens, projs)
  THEN [p |-> p, checked |-> TRUE, lifeLost |-> FALSE, lose |-> FALSE]
  ELSE IF p.hasShield
  THEN [p |-> [p EXCEPT !.hasShield = FALSE, !.isInvincible = TRUE,
                        !.invincibleTimer = HitTicks],
        checked |-> TRUE, lifeLost |-> FALSE, lose |-> FALSE]
  ELSE [p |-> [p EXCEPT !.x = SPAWN_X, !.y = SPAWN_Y, !.vy = 0,
                        !.isInvincible = TRUE,
                        !.invincibleTimer = HitTicks],
        checked |-> TRUE, lifeLost |-> TRUE, lose |-> lv - 1 <= 0]

\* ------------------------------------------------------------------------
\* Variant 1, gameLoop: projectile vs enemies
\* ------------------------------------------------------------------------
HitsEnemy(proj, enemy) ==
  proj.owner = "player" /\ checkCollision(ProjectileRect(proj), enemy)

\* how many (projectile, enemy) pairs of the closed-over lists hit enemy id
HitCount(projs, ens, id) ==
  Cardinality({ pr \in (1..Len(projs)) \X (1..Len(ens)) :
                  ens[pr[2]].id = id /\ HitsEnemy(projs[pr[1]], ens[pr[2]]) })

TotalHits(projs, ens) ==
  Cardinality({ pr \in (1..Len(projs)) \X (1..Len(ens)) :
                  HitsEnemy(projs[pr[1]], ens[pr[2]]) })

\* setEnemies(en => en.map(e => e.id === enemy.id ? {...e, health: ...} : e)),
\* once per hit, applied to the queued state q
DamageEnemies(q, projs, ens) ==
  [i \in 1..Len(q) |->
     LET n == HitCount(projs, ens, q[i].id)
     IN IF n = 0 THEN q[i]
        ELSE [q[i] EXCEPT !.health = Some(Coalesce(q[i].health, 1) - n)]]


\* ------------------------------------------------------------------------
\* Variant 1, gameLoop: interactive elements (third setPlayer updater)
\* ------------------------------------------------------------------------
\* const playerHead = { x: p.x, y: p.y - 1, width: PLAYER_WIDTH, height: 1 }
PlayerHead(p) == Rect(p.x, p.y - 1, PLAYER_WIDTH, 1)

BoxTriggers(p, entity) ==
  /\ entity.type = "power-up-box" /\ ~entity.hit /\ p.vy < 0
  /\ checkCollision(PlayerHead(p), entity)

\* the indices of the boxes the updater triggers: one random draw for each
BoxesHit(p, lvl) == { i \in 1..Len(lvl) : BoxTriggers(p, lvl[i]) }

ApplyPowerup(pu, kind) ==
  IF kind = "weapon" THEN [pu EXCEPT !.hasWeapon = TRUE]
  ELSE IF kind = "shield" THEN [pu EXCEPT !.hasShield = TRUE]
  ELSE IF kind = "invincibility"
       THEN [pu EXCEPT !.isInvincible = TRUE,
                       !.invincibleTimer = POWERUP_INVINCIBLE_TICKS]
  ELSE pu

ConsoleTriggers(p, entity, keys) ==
  /\ entity.type = "console" /\ "e" \in keys
  /\ checkCollision(PlayerRect(p), entity)

\* one iteration of updatedLevel.forEach; acc.lvl is the level being mutated,
\* acc.fired the ids of the entities whose effect has run: a box (power-up,
\* particles), a console (firewall off, showMessage), a log (showMessage)
InteractEntity(i, p, keys, draws, acc) ==
  LET entity == acc.lvl[i] IN
  IF BoxTriggers(p, entity)
  THEN [acc EXCEPT !.lvl[i].hit = TRUE,
                   !.p = ApplyPowerup(@, draws[i]),
                   !.gained = @ + (IF draws[i] = "life" THEN 1 ELSE 0),
                   !.bursts = @ + 1,
                   !.fired = Append(@, entity.id)]
  ELSE IF ConsoleTriggers(p, entity, keys)
  THEN LET k == FindIndex(acc.lvl, entity.linkedElementId, 1) IN
       IF k # 0 /\ acc.lvl[k].type = "firewall"
       THEN [acc EXCEPT !.lvl[k].active = FALSE,
                        !.fired = Append(@, entity.id)]
       ELSE acc
  ELSE IF entity.type = "log" /\ ~entity.collected
          /\ checkCollision(PlayerRect(p), entity)
  THEN [acc EXCEPT !.lvl[i].collected = TRUE,
                   !.fired = Append(@, entity.id)]
  ELSE IF entity.type = "goal" /\ entity.active
          /\ checkCollision(PlayerRect(p), entity)
  THEN [acc EXCEPT !.win = TRUE]
  ELSE acc

RECURSIVE InteractLevel(_, _, _, _, _)
InteractLevel(i, p, keys, draws, acc) ==
  IF i > Len(acc.lvl) THEN acc
  ELSE InteractLevel(i + 1, p, keys, draws,
                     InteractEntity(i, p, keys, draws, acc))

Interactive(p, lvl, keys, draws) ==
  InteractLevel(1, p, keys, draws,
                [lvl |-> lvl, p |-> p, gained |-> 0, win |-> FALSE,
                 bursts |-> 0, fired |-> << >>])

\* if (!enemies.some(e => e.type === 'The Adware King')) goal.active = true
HasBoss(ens) == \E i \in 1..Len(ens) : ens[i].type = "The Adware King"

RECURSIVE FindType(_, _, _)
FindType(lvl, type, i) ==
  IF i > Len(lvl) THEN 0
  ELSE IF lvl[i].type = type THEN i ELSE FindType(lvl, type, i + 1)

ActivateGoal(lvl, ens) ==
  LET g == FindType(lvl, "goal", 1)
  IN IF ~HasBoss(ens) /\ g # 0 THEN [lvl EXCEPT ![g].active = TRUE] ELSE lvl

\* the projectile map that leaves a projectile where it is
ProjectileStill(pr) == pr

\* ------------------------------------------------------------------------
\* Variant 1, gameLoop: projectiles, particles, camera
\* ------------------------------------------------------------------------
\* prev.map(p => ({...p, x: p.x + p.vx}))
MoveProjectile(pr) == [pr EXCEPT !.x = pr.x + pr.vx]
\* .filter(p => p.x > cameraX && p.x < cameraX + WIDTH)
InView(pr, cam) == pr.x > cam /\ pr.x < cam + WIDTH

\* opacity - 0.05 each tick, kept while > 0 (one step of the coarse scale)
DecayParticles(ps) ==
  SelectSeq([i \in 1..Len(ps) |-> ps[i] - 1], LAMBDA o : o > 0)

Bursts(n) == [i \in 1..n |-> PARTICLE_OPACITY]

\* (target - prev) * 0.1 on the grid: a tenth of the gap, rounded away from
\* zero, so that the camera approaches its target and never passes it
SmoothStep(gap) ==
  IF gap >= 0 THEN (gap + CAMERA_SMOOTHING_DIV - 1) \div CAMERA_SMOOTHING_DIV
  ELSE -((-gap + CAMERA_SMOOTHING_DIV - 1) \div CAMERA_SMOOTHING_DIV)

\* the smoothed camera without the clamp of line 587
CameraUnclamped(prev, playerX) == prev + SmoothStep(playerX - WIDTH \div 2 - prev)

CameraLogic(prev, playerX) ==
  LET target == playerX - WIDTH \div 2
      newCamX == prev + SmoothStep(target - prev)
  IN Max(0, Min(LEVEL_WIDTH - WIDTH, newCamX))


\* ------------------------------------------------------------------------
\* Variant 1: the actions
\* ------------------------------------------------------------------------
B2N(b) == IF b THEN 1 ELSE 0

\* What a tick computes from the closed-over state alone, whatever the keys:
\* goal activation (lines 569-572), the projectile map and filters (466,
\* 502-512), the particles of the enemy hits, the camera (584-588)
Autonomous ==
  LET moved == [i \in 1..Len(projectiles) |-> MoveProjectile(projectiles[i])]
  IN [goalLvl |-> ActivateGoal(level, enemies),
      moved |-> moved,
      flying |-> [i \in 1..Len(projectiles) |->
                    /\ InView(moved[i], cameraX)
                    /\ ~(\E j \in 1..Len(enemies) :
                           HitsEnemy(projectiles[i], enemies[j]))],
      particles |-> DecayParticles(particles
                                   \o Bursts(TotalHits(projectiles, enemies))),
      cameraX |-> CameraLogic(cameraX, player.x)]

\* The rest of gameLoop once the first two setPlayer updaters are known.
\* u1: player logic, u2: collision detection; draws: the Math.random()
\* power-up of each box the third updater triggers; w: Autonomous.  The
\* result holds the state the next render sees.
FinishLoop(keys, draws, u1, u2, w) ==
  LET u3 == Interactive(u2.p, w.goalLvl, keys, draws)
      keep == [i \in 1..Len(projectiles) |->
                 /\ w.flying[i]
                 /\ ~(u2.checked /\ HitsPlayer(u1.p, projectiles[i]))]
  IN [player |-> u3.p,
      level |-> u3.lvl,
      enemies |-> DamageEnemies(EnemyLogic(enemies, player.x, u3.lvl),
                                projectiles, enemies),
      projectiles |-> KeepIdx(w.moved, keep, 1)
                      \o EnemyLogicShots(enemies, player.x, u3.lvl),
      particles |-> w.particles \o Bursts(u3.bursts),
      lives |-> lives - B2N(u1.lifeLost) - B2N(u2.lifeLost) + u3.gained,
      gameState |-> IF u3.win THEN "win"
                    ELSE IF u1.lose \/ u2.lose THEN "lose" ELSE "playing",
      cameraX |-> w.cameraX,
      fired |-> u3.fired]

\* level.forEach returns at once for an entity that is neither a platform
\* nor an active firewall: the entities the collision pass acts on
Collidable(entity) ==
  \/ entity.type = "platform"
  \/ entity.type = "firewall" /\ entity.active

\* the two first updaters of a tick that reads keys
Moved(keys) == PlayerLogic(player, keys, SelectSeq(level, Collidable), lives)
Checked(keys) == CollisionDetection(Moved(keys).p, enemies, projectiles, lives)

\* the boxes the tick triggers: one random draw for each
DrawSets(keys) == [BoxesHit(Checked(keys).p, level) -> Powerups]

\* gameLoop as a function of the state and of the tick's inputs
gameLoop(keys, draws) ==
  FinishLoop(keys, draws, Moved(keys), Checked(keys), Autonomous)

\* ------------------------------------------------------------------------
\* Variant 2 (second App, lines 798-1300): constants.  Lengths are pixels as
\* in the source; positions and velocities are held in hundredths of a pixel
\* so that GRAVITY 0.7 and FRICTION 0.8 stay exact to two decimals.
\* ------------------------------------------------------------------------
GAME_WIDTH == 800
GAME_HEIGHT == 600
PLAYER_WIDTH2 == 40
PLAYER_HEIGHT2 == 60
PLAYER_SPEED2 == 5
JUMP_STRENGTH == 13
GRAVITY2 == 70
TERMINAL_VELOCITY == 15
FRICTION == 80
PROJECTILE_SPEED == 10
BOSS_HEALTH == 20
LEVEL_WIDTH2 == 4600
SPAWN_X2 == 100
SPAWN_Y2 == 400
INITIAL_LIVES2 == 3
SHOOT_COOLDOWN == 20
SPAMBOT_COOLDOWN2 == 120
SPAMBOT_RANGE2 == 300
SPAMBOT_SHOT_SPEED2 == 4
SPAMBOT_SHOT_SIZE == 12
SPAMBOT_SHOT_DY2 == 20
BOSS_COOLDOWN2 == 90
BOSS_THRESHOLD_X2 == 3720
BOSS_SPEED == 2
BOSS_LOW == 430
BOSS_HIGH == 250
BOSS_SHOT_SIZE == 15
BOSS_SHOT_VY == 5
VIRUS_SPEED == 150
PLAYER_SHOT_SIZE == 10
\* width of a new particle, counted in shrink steps
PARTICLE_WIDTH == 2

\* n pixels in hundredths of a pixel
Px(n) == n * 100

\* v * num / 100, rounded toward zero
Scaled(v, num) ==
  IF v >= 0 THEN (v * num) \div 100 ELSE -(((-v) * num) \div 100)

\* deltaTime, (currentTime - lastTime) / (1000 / 60): frames arrive on time
DeltaTimes == {1}

\* deltaTime of the first frame after a pause of 5 seconds
LateDeltaTimes == {300}

Keys2 == {"left", "right", "up", "x", "e"}

GameObject(id, type, subtype, x, y, w, h) ==
  [id |-> id, type |-> type, subtype |-> subtype, x |-> Px(x), y |-> Px(y),
   width |-> Px(w), height |-> Px(h), vx |-> 0, vy |-> 0,
   health |-> Undefined, direction |-> "none", patrolStart |-> 0,
   patrolEnd |-> 0, hit |-> FALSE, targetId |-> 0]

Enemy2(id, subtype, x, y, w, h, ps, pe, dir) ==
  [GameObject(id, "enemy", subtype, x, y, w, h) EXCEPT
     !.patrolStart = Px(ps), !.patrolEnd = Px(pe), !.direction = dir]

Console2(id, x, y, w, h, target) ==
  [GameObject(id, "console", "none", x, y, w, h) EXCEPT !.targetId = target]

Boss2(id, x, y, w, h) ==
  [GameObject(id, "boss", "none", x, y, w, h) EXCEPT
     !.health = Some(BOSS_HEALTH), !.direction = "down"]

InitialPlayerState ==
  [x |-> Px(SPAWN_X2), y |-> Px(SPAWN_Y2), vx |-> 0, vy |-> 0,
   onGround |-> FALSE, direction |-> "right"]

PlayerBox(p) ==
  [x |-> p.x, y |-> p.y, width |-> Px(PLAYER_WIDTH2),
   height |-> Px(PLAYER_HEIGHT2)]

\* ------------------------------------------------------------------------
\* Variant 2: level data (reduced levels around the spawn point, same kinds,
\* ids and sizes as the entries of levelData they stand for)
\* ------------------------------------------------------------------------
\* the gate: floor, console 300 and its firewall 998, boss, goal
GateLevel2 ==
  << GameObject(1, "platform", "keyboard", 0, 460, 400, 50),
     Console2(300, 100, 420, 40, 40, 998),
     GameObject(998, "firewall", "none", 143, 260, 20, 200),
     Boss2(14, 300, 260, 100, 100),
     GameObject(1000, "goal", "none", 48, 400, 50, 60) >>

\* the boxes: floor, a shield box and a weapon box overhead, a shooter
BoxLevel2 ==
  << GameObject(1, "platform", "keyboard", 0, 460, 400, 50),
     GameObject(101, "powerupBox", "shield", 61, 350, 40, 40),
     GameObject(100, "powerupBox", "weapon", 139, 350, 40, 40),
     Enemy2(201, "spam-bot", 56, 368, 40, 50, 0, 0, "none") >>

\* the arena: floor, a weapon box over the spawn point, the boss in the line
\* of fire
ArenaLevel2 ==
  << GameObject(1, "platform", "keyboard", 0, 460, 400, 50),
     GameObject(100, "powerupBox", "weapon", 100, 350, 40, 40),
     Boss2(14, 150, 360, 100, 100) >>

\* the extra life: floor, an extraLife box over the spawn point, a shooter
\* and a mini-virus walking away, both touching the spawn box from the left
LifeLevel2 ==
  << GameObject(1, "platform", "keyboard", 0, 460, 400, 50),
     GameObject(103, "powerupBox", "extraLife", 100, 350, 40, 40),
     Enemy2(201, "spam-bot", 60, 400, 40, 50, 0, 0, "none"),
     Enemy2(200, "mini-virus", 62, 420, 40, 40, 0, 400, "left") >>

\* the timed power-up: floor, two invincibility boxes just over the player's
\* head, the second beside the first and ahead of it in the registry
TimedLevel2 ==
  << GameObject(1, "platform", "keyboard", 0, 460, 400, 50),
     GameObject(104, "powerupBox", "invincibility", 140, 359, 40, 40),
     GameObject(102, "powerupBox", "invincibility", 100, 359, 40, 40) >>

\* the duel: floor, a weapon box over the spawn point, and a mini-virus that
\* walks up to the player from behind
DuelLevel2 ==
  << GameObject(1, "platform", "keyboard", 0, 460, 400, 50),
     GameObject(100, "powerupBox", "weapon", 100, 350, 40, 40),
     Enemy2(200, "mini-virus", 52, 420, 40, 40, 0, 400, "right") >>

\* the shelter: floor, an invincibility box over the spawn point, and a
\* mini-virus that walks up to the player from behind
ShelterLevel2 ==
  << GameObject(1, "platform", "keyboard", 0, 460, 400, 50),
     GameObject(102, "powerupBox", "invincibility", 100, 350, 40, 40),
     Enemy2(200, "mini-virus", 52, 420, 40, 40, 0, 400, "right") >>

\* the corner: one platform that begins a pixel right of the spawned player
\* and two pixels below its feet
CornerLevel2 ==
  << GameObject(1, "platform", "keyboard", 141, 462, 259, 50) >>

\* the pacer: floor and a mini-virus walking left, one pixel from the start
\* of its range and far from the player
PacerLevel2 ==
  << GameObject(1, "platform", "keyboard", 0, 460, 400, 50),
     Enemy2(202, "mini-virus", 301, 420, 40, 40, 300, 400, "left") >>

\* the orphan: floor and, at the spawn point, a console whose target no
\* entity has
OrphanLevel2 ==
  << GameObject(1, "platform", "keyboard", 0, 460, 400, 50),
     Console2(300, 100, 420, 40, 40, 997) >>

\* the patrol: floor and a mini-virus walking toward the spawn point
PatrolLevel2 ==
  << GameObject(1, "platform", "keyboard", 0, 460, 400, 50),
     Enemy2(200, "mini-virus", 141, 420, 40, 40, 100, 400, "left") >>

\* ------------------------------------------------------------------------
\* Variant 2, gameLoop: input, shooting, physics (lines 937-982)
\* ------------------------------------------------------------------------
\* objs: the objects gameEntities refers to, by reference; a reference not
\* in use
FreshRef(objs) ==
  1 + (CHOOSE m \in DOMAIN objs : \A r \in DOMAIN objs : r <= m)

Clamp(lo, n, hi) == Max(lo, Min(n, hi))

\* "Player Movement" with a jump that does not ask for player.onGround
MovementInAir(p, keys) ==
  LET vx1 == IF "left" \in keys THEN p.vx - Px(1) ELSE p.vx
      vx2 == IF "right" \in keys THEN vx1 + Px(1) ELSE vx1
      dir == IF "right" \in keys THEN "right"
             ELSE IF "left" \in keys THEN "left" ELSE p.direction
      jump == "up" \in keys
  IN [p EXCEPT !.vx = vx2, !.direction = dir,
               !.vy = IF jump THEN -Px(JUMP_STRENGTH) ELSE @,
               !.onGround = IF jump THEN FALSE ELSE @]

\* "Player Movement": keys to vx, direction, jump
Movement(p, keys) ==
  LET vx1 == IF "left" \in keys THEN p.vx - Px(1) ELSE p.vx
      vx2 == IF "right" \in keys THEN vx1 + Px(1) ELSE vx1
      dir == IF "right" \in keys THEN "right"
             ELSE IF "left" \in keys THEN "left" ELSE p.direction
      jump == "up" \in keys /\ p.onGround
  IN [p EXCEPT !.vx = vx2, !.direction = dir,
               !.vy = IF jump THEN -Px(JUMP_STRENGTH) ELSE @,
               !.onGround = IF jump THEN FALSE ELSE @]

\* the shooting condition without the weapon test
ShootsUnarmed(keys, weapon, cd) == "x" \in keys /\ cd = 0

\* "Shooting": the condition and the projectile pushed onto gameEntities
Shoots(keys, weapon, cd) == "x" \in keys /\ weapon /\ cd = 0

PlayerShot(p) ==
  [GameObject(0, "projectile", "none", 0, 0, PLAYER_SHOT_SIZE,
              PLAYER_SHOT_SIZE) EXCEPT
     !.x = IF p.direction = "right" THEN p.x + Px(PLAYER_WIDTH2) ELSE p.x,
     !.y = p.y + Px(PLAYER_HEIGHT2) \div 2 - Px(5),
     !.vx = IF p.direction = "right" THEN Px(PROJECTILE_SPEED)
            ELSE -Px(PROJECTILE_SPEED)]

\* "Apply physics" up to player.x += player.vx * deltaTime
PhysicsX(p, dt) ==
  LET vx1 == Clamp(-Px(PLAYER_SPEED2), Scaled(p.vx, FRICTION),
                   Px(PLAYER_SPEED2))
      vx2 == IF Abs(vx1) < 10 THEN 0 ELSE vx1
      vy1 == Min(Px(TERMINAL_VELOCITY), p.vy + GRAVITY2)
  IN [p EXCEPT !.vx = vx2, !.vy = vy1, !.x = @ + vx2 * dt]

\* ------------------------------------------------------------------------
\* Variant 2, gameLoop: collision passes (lines 984-1039)
\* ------------------------------------------------------------------------
SolidX(e) == e.type \in {"platform", "firewall", "powerupBox"}

\* one iteration of the X-axis loop
CollideX(p, e) ==
  IF SolidX(e) /\ checkCollision(PlayerBox(p), e)
  THEN [p EXCEPT !.x = IF p.vx > 0 THEN e.x - Px(PLAYER_WIDTH2)
                       ELSE IF p.vx < 0 THEN e.x + e.width ELSE @,
                 !.vx = 0]
  ELSE p

\* TRUE of every value.  A loop applies it to the result of its first half,
\* so that the first half is computed before the second half starts.
Evaluated(v) == v = v

\* A for-of loop over entries lo..hi of the array, in array order: the
\* first half, then the second half from where the first half ended.
RECURSIVE PassX(_, _, _, _, _)
PassX(p, ents, objs, lo, hi) ==
  IF lo > hi THEN p
  ELSE IF lo = hi THEN CollideX(p, objs[ents[lo]])
  ELSE LET mid == (lo + hi) \div 2
           q == PassX(p, ents, objs, lo, mid)
       IN IF Evaluated(q.x) THEN PassX(q, ents, objs, mid + 1, hi) ELSE q

\* The state setters a tick calls, in call order: lives is the sum of the
\* setLives(l => l +- 1) updaters, the others hold the last value set
\* (Undefined when the tick did not call the setter).
\* the state setters a frame has called; fired: the ids of the entities whose
\* effect has run (a box's power-up, a console's or a log's showMessage)
NoEffects ==
  [lives |-> 0, hasShield |-> Undefined, hasWeapon |-> Undefined,
   isInvincible |-> Undefined, gameState |-> Undefined, fired |-> << >>]

\* "Player hits a powerup box from below"
BoxEffect(fx, subtype) ==
  IF subtype = "shield" THEN [fx EXCEPT !.hasShield = Some(TRUE)]
  ELSE IF subtype = "weapon" THEN [fx EXCEPT !.hasWeapon = Some(TRUE)]
  ELSE IF subtype = "invincibility" THEN [fx EXCEPT !.isInvincible = Some(TRUE)]
  ELSE IF subtype = "extraLife" THEN [fx EXCEPT !.lives = @ + 1]
  ELSE fx

\* one iteration of the Y-axis loop; acc: player, objects, effects
CollideY(acc, r, dt) ==
  LET p == acc.p
      e == acc.objs[r]
      hits == checkCollision(PlayerBox(p), e)
  IN IF e.type \in {"platform", "powerupBox"} /\ hits
     THEN IF p.vy > 0 /\ p.y + Px(PLAYER_HEIGHT2) - p.vy * dt <= e.y
          THEN [acc EXCEPT !.p.y = e.y - Px(PLAYER_HEIGHT2), !.p.vy = 0,
                           !.p.onGround = TRUE]
          ELSE IF p.vy < 0 /\ p.y - p.vy * dt >= e.y + e.height
          THEN LET bumped == [acc EXCEPT !.p.y = e.y + e.height, !.p.vy = 0]
               IN IF e.type = "powerupBox" /\ ~e.hit
                  THEN [bumped EXCEPT !.objs[r].hit = TRUE,
                                      !.fx = BoxEffect(@, e.subtype),
                                      !.fx.fired = Append(@, e.id)]
                  ELSE bumped
          ELSE acc
     ELSE IF e.type = "firewall" /\ hits
     THEN IF p.vy > 0
          THEN [acc EXCEPT !.p.y = e.y - Px(PLAYER_HEIGHT2), !.p.vy = 0,
                           !.p.onGround = TRUE]
          ELSE IF p.vy < 0
          THEN [acc EXCEPT !.p.y = e.y + e.height, !.p.vy = 0]
          ELSE acc
     ELSE acc

RECURSIVE PassY(_, _, _, _, _)
PassY(acc, ents, dt, lo, hi) ==
  IF lo > hi THEN acc
  ELSE IF lo = hi THEN CollideY(acc, ents[lo], dt)
  ELSE LET mid == (lo + hi) \div 2
           a == PassY(acc, ents, dt, lo, mid)
       IN IF Evaluated(a.p.x) THEN PassY(a, ents, dt, mid + 1, hi) ELSE a

\* the clamp of "Player bounds" without the test for a fall
BoundsWithoutFall(acc, ls) ==
  [acc EXCEPT !.p.x = Clamp(0, acc.p.x, Px(LEVEL_WIDTH2) - Px(PLAYER_WIDTH2))]

\* "Player bounds" (lines 1042-1053); ls: the lives the effect closed over
Bounds(acc, ls) ==
  LET x1 == Clamp(0, acc.p.x, Px(LEVEL_WIDTH2) - Px(PLAYER_WIDTH2))
      p1 == [acc.p EXCEPT !.x = x1]
  IN IF p1.y > Px(GAME_HEIGHT)
     THEN IF ls - 1 <= 0
          THEN [acc EXCEPT !.p = p1, !.fx.lives = @ - 1,
                           !.fx.gameState = Some("gameOver")]
          ELSE [acc EXCEPT !.p = [p1 EXCEPT !.x = Px(SPAWN_X2),
                                            !.y = Px(SPAWN_Y2),
                                            !.vx = 0, !.vy = 0],
                           !.fx.lives = @ - 1]
     ELSE [acc EXCEPT !.p = p1]

\* ------------------------------------------------------------------------
\* Variant 2, gameLoop: entity logic (lines 1056-1141)
\* ------------------------------------------------------------------------
\* "Enemy movement": speed 1.5 each visit of the object
VirusMove(e, dt) ==
  IF e.direction = "right"
  THEN LET x1 == e.x + VIRUS_SPEED * dt
       IN [e EXCEPT !.x = x1,
                    !.direction = IF x1 > e.patrolEnd THEN "left" ELSE @]
  ELSE LET x1 == e.x - VIRUS_SPEED * dt
       IN [e EXCEPT !.x = x1,
                    !.direction = IF x1 < e.patrolStart THEN "right" ELSE @]

\* "Spambot shooting"
SpamBotFires2(e, p, cd) ==
  /\ e.type = "enemy" /\ e.subtype = "spam-bot" /\ cd = 0
  /\ Abs(p.x - e.x) < Px(SPAMBOT_RANGE2)

SpamBotShot(e, p) ==
  [GameObject(0, "enemyProjectile", "none", 0, 0, SPAMBOT_SHOT_SIZE,
              SPAMBOT_SHOT_SIZE) EXCEPT
     !.x = e.x + e.width \div 2,
     !.y = e.y + Px(SPAMBOT_SHOT_DY2),
     !.vx = IF p.x - e.x > 0 THEN Px(SPAMBOT_SHOT_SPEED2)
            ELSE -Px(SPAMBOT_SHOT_SPEED2)]

\* "Boss logic"
BossActive2(e, p) == e.type = "boss" /\ p.x > Px(BOSS_THRESHOLD_X2)

BossMove(e, dt) ==
  IF e.direction = "down"
  THEN LET y1 == e.y + Px(BOSS_SPEED) * dt
       IN [e EXCEPT !.y = y1,
                    !.direction = IF y1 > Px(BOSS_LOW) THEN "up" ELSE @]
  ELSE LET y1 == e.y - Px(BOSS_SPEED) * dt
       IN [e EXCEPT !.y = y1,
                    !.direction = IF y1 < Px(BOSS_HIGH) THEN "down" ELSE @]

\* the burst of three, i = 0, 1, 2: vx: -5 + i * 2, vy: 5
BossShot(e, i) ==
  [GameObject(0, "enemyProjectile", "none", 0, 0, BOSS_SHOT_SIZE,
              BOSS_SHOT_SIZE) EXCEPT
     !.x = e.x + e.width \div 2,
     !.y = e.y + e.height \div 2,
     !.vx = Px(-5 + i * 2),
     !.vy = Px(BOSS_SHOT_VY)]

IsProjectile(e) == e.type \in {"projectile", "enemyProjectile"}
IsHostile(e) == e.type \in {"enemy", "boss"}

\* a hit that adds to the health instead
Healed(e) == [e EXCEPT !.health = Some(Coalesce(e.health, 1) + 1)]

\* other.health = (other.health || 1) - 1
Damaged(e) ==
  LET h == Coalesce(e.health, 1)
  IN [e EXCEPT !.health = Some((IF h = 0 THEN 1 ELSE h) - 1)]

\* "Projectile hits enemy": one visit of the inner loop, for player
\* projectile pr and the entry r of gameEntities; acc: objects, hits
ShotHit(acc, pr, r) ==
  LET other == acc.objs[r]
  IN IF IsHostile(other) /\ checkCollision(acc.objs[pr], other)
     THEN [acc EXCEPT !.objs[r] = Damaged(other), !.hits = @ + 1]
     ELSE acc

\* the inner loop: one visit for each entry of the array
RECURSIVE ShotHits(_, _, _, _, _)
ShotHits(acc, pr, ents, lo, hi) ==
  IF lo > hi THEN acc
  ELSE IF lo = hi THEN ShotHit(acc, pr, ents[lo])
  ELSE LET mid == (lo + hi) \div 2
           a == ShotHits(acc, pr, ents, lo, mid)
       IN IF Evaluated(a.hits) THEN ShotHits(a, pr, ents, mid + 1, hi)
          ELSE a

\* Allocates object e: the new heap and its reference
Alloc(objs, e) == [r \in DOMAIN objs \cup {FreshRef(objs)} |->
                     IF r \in DOMAIN objs THEN objs[r] ELSE e]

\* one iteration of the entity loop for reference r; acc: objects, the
\* newEntities array, the two enemy cooldowns, the hits of player shots
EntityStep(acc, r, ents, p, dt) ==
  LET e0 == acc.objs[r]
      \* enemy movement
      a1 == IF e0.type = "enemy" /\ e0.subtype = "mini-virus"
            THEN [acc EXCEPT !.objs[r] = VirusMove(e0, dt)]
            ELSE acc
      \* spambot shooting
      a2 == IF SpamBotFires2(e0, p, a1.spambotCooldown)
            THEN [a1 EXCEPT
                    !.objs = Alloc(@, SpamBotShot(e0, p)),
                    !.newEntities = Append(@, FreshRef(a1.objs)),
                    !.spambotCooldown = SPAMBOT_COOLDOWN2]
            ELSE a1
      \* boss logic
      a3 == IF BossActive2(e0, p)
            THEN LET moved == [a2 EXCEPT !.objs[r] = BossMove(e0, dt)]
                 IN IF moved.bossCooldown = 0
                    THEN LET o1 == Alloc(moved.objs, BossShot(moved.objs[r], 0))
                             o2 == Alloc(o1, BossShot(moved.objs[r], 1))
                             o3 == Alloc(o2, BossShot(moved.objs[r], 2))
                         IN [moved EXCEPT
                               !.objs = o3,
                               !.newEntities = @ \o << FreshRef(moved.objs),
                                                       FreshRef(o1),
                                                       FreshRef(o2) >>,
                               !.bossCooldown = BOSS_COOLDOWN2]
                    ELSE moved
            ELSE a2
      \* projectile movement and collision
      flown == [e0 EXCEPT !.x = @ + e0.vx * dt, !.y = @ + e0.vy * dt]
      a4 == IF IsProjectile(e0) THEN [a3 EXCEPT !.objs[r] = flown] ELSE a3
      out == IsProjectile(e0) /\ (flown.x < 0 \/ flown.x > Px(LEVEL_WIDTH2))
      a5 == IF e0.type = "projectile" THEN ShotHits(a4, r, ents, 1, Len(ents)) ELSE a4
      keepEntity == ~out /\ a5.hits = a3.hits
  IN IF keepEntity THEN [a5 EXCEPT !.newEntities = Append(@, r)] ELSE a5

RECURSIVE EntityLoop(_, _, _, _, _, _)
EntityLoop(acc, ents, p, dt, lo, hi) ==
  IF lo > hi THEN acc
  ELSE IF lo = hi THEN EntityStep(acc, ents[lo], ents, p, dt)
  ELSE LET mid == (lo + hi) \div 2
           a == EntityLoop(acc, ents, p, dt, lo, mid)
       IN IF Evaluated(a.hits) THEN EntityLoop(a, ents, p, dt, mid + 1, hi)
          ELSE a

\* newEntities.filter(e => (e.health === undefined || e.health > 0))
Healthy(e) == e.health = Undefined \/ e.health[1] > 0

\* lines 1138-1141: the filtered newEntities, then "Merge newly created
\* entities": every entry of newEntities that is no projectile, once more
Merged(newEntities, objs) ==
  SelectSeq(newEntities, LAMBDA r : Healthy(objs[r]))
  \o SelectSeq(newEntities, LAMBDA r : ~IsProjectile(objs[r]))

\* ------------------------------------------------------------------------
\* Variant 2, gameLoop: player-item/enemy interaction (lines 1144-1181)
\* ------------------------------------------------------------------------
\* One iteration for reference r.  acc: player, effects, nextEntities, and
\* current, the array gameEntities.current names while the loop runs over
\* the array it named at the start.  ls, shield, inv: lives, hasShield and
\* isInvincible as the effect closed over them.
InteractStep(acc, r, objs, keys, ls, shield, inv) ==
  LET e == objs[r] IN
  IF ~checkCollision(PlayerBox(acc.p), e)
  THEN [acc EXCEPT !.nextEntities = Append(@, r)]
  ELSE
    LET a1 == IF e.type = "goal"
              THEN [acc EXCEPT !.fx.gameState = Some("levelComplete")]
              ELSE acc
        harmful == e.type \in {"enemy", "enemyProjectile", "boss"} /\ ~inv
        a2 == IF ~harmful THEN a1
              ELSE IF shield
              THEN [a1 EXCEPT !.fx.hasShield = Some(FALSE)]
              ELSE IF ls - 1 <= 0
              THEN [a1 EXCEPT !.fx.lives = @ - 1,
                              !.fx.gameState = Some("gameOver")]
              ELSE [a1 EXCEPT !.fx.lives = @ - 1,
                              !.p = [@ EXCEPT !.x = Px(SPAWN_X2),
                                              !.y = Px(SPAWN_Y2),
                                              !.vx = 0, !.vy = 0]]
        absorbed == harmful /\ shield /\ e.type = "enemyProjectile"
        used == e.type = "console" /\ "e" \in keys
        a3 == IF used
              THEN [a2 EXCEPT !.current =
                      SelectSeq(@, LAMBDA q : objs[q].id # e.targetId)]
              ELSE a2
        a4 == IF e.type = "log" \/ used
              THEN [a3 EXCEPT !.fx.fired = Append(@, e.id)]
              ELSE a3
        keep == ~absorbed /\ e.type # "log" /\ ~used
    IN IF keep THEN [a4 EXCEPT !.nextEntities = Append(@, r)] ELSE a4

RECURSIVE InteractLoop(_, _, _, _, _, _, _, _, _)
InteractLoop(acc, ents, objs, keys, ls, shield, inv, lo, hi) ==
  IF lo > hi THEN acc
  ELSE IF lo = hi
  THEN InteractStep(acc, ents[lo], objs, keys, ls, shield, inv)
  ELSE LET mid == (lo + hi) \div 2
           a == InteractLoop(acc, ents, objs, keys, ls, shield, inv, lo, mid)
       IN IF Evaluated(a.p.x)
          THEN InteractLoop(a, ents, objs, keys, ls, shield, inv, mid + 1, hi)
          ELSE a

\* "Update Camera"
CameraLogic2(cam, playerX) ==
  LET target == playerX - Px(GAME_WIDTH) \div 2
      smoothed == cam + Scaled(target - cam, 10)
  IN Max(0, Min(smoothed, Px(LEVEL_WIDTH2) - Px(GAME_WIDTH)))

\* "Update particles": every particle shrinks, gone at width 0
Shrink(ps) == SelectSeq([i \in 1..Len(ps) |-> ps[i] - 1], LAMBDA w : w > 0)

\* ------------------------------------------------------------------------
\* Variant 2: one call of gameLoop, from the refs and the state the effect
\* closed over
\* ------------------------------------------------------------------------
\* lines 937-1141: everything before the interaction loop; keys: the
\* movement and shoot keys held
\* The stages pass on one record a: the player p, the objects objs, the
\* array ents that gameEntities.current names, the effects fx, shootCooldown.
\* lines 940-972: cooldown, "Player Movement", "Shooting"
Shooting(keys) ==
  LET shootCd == Max(0, shootCooldown - 1)
      p1 == Movement(playerState, keys)
      fires == Shoots(keys, hasWeapon, shootCd)
  IN [p |-> p1,
      objs |-> IF fires THEN Alloc(objects, PlayerShot(p1)) ELSE objects,
      ents |-> IF fires THEN Append(gameEntities, FreshRef(objects))
               ELSE gameEntities,
      fx |-> NoEffects,
      shootCooldown |-> IF fires THEN SHOOT_COOLDOWN ELSE shootCd]

\* lines 975-996: "Apply physics" and "Collision Detection (X-axis)"
XAxis(a, dt) ==
  [a EXCEPT !.p = PassX(PhysicsX(a.p, dt), a.ents, a.objs, 1, Len(a.ents))]

\* lines 998-1039: the move along y and "Collision Detection (Y-axis)"
YAxis(a, dt) ==
  PassY([a EXCEPT !.p.y = @ + a.p.vy * dt, !.p.onGround = FALSE],
        a.ents, dt, 1, Len(a.ents))

\* lines 1138-1141 and the values Interact reads, from the loop's result l
Gathered(a, l) ==
  [p |-> a.p, fx |-> a.fx, objs |-> l.objs,
   merged |-> Merged(l.newEntities, l.objs),
   hits |-> l.hits,
   shootCooldown |-> a.shootCooldown,
   spambotCooldown |-> l.spambotCooldown,
   bossCooldown |-> l.bossCooldown]

\* lines 1055-1141: "Entity Logic"
EntityLogic(a, dt) ==
  Gathered(a, EntityLoop([objs |-> a.objs, newEntities |-> << >>,
                          spambotCooldown |-> Max(0, spambotCooldown - 1),
                          bossCooldown |-> Max(0, bossCooldown - 1),
                          hits |-> 0],
                         a.ents, a.p, dt, 1, Len(a.ents)))

Simulate(keys, dt) ==
  EntityLogic(Bounds(YAxis(XAxis(Shooting(keys), dt), dt), lives), dt)

\* lines 1181-1200: the refs and the state of the next render, from the
\* result s of Simulate and the result i7 of the interaction loop
Rendered(s, i7) ==
  LET live == {i7.nextEntities[i] : i \in 1..Len(i7.nextEntities)}
      fx == i7.fx
      next == [gameState |-> Coalesce(fx.gameState, gameState),
               hasWeapon |-> Coalesce(fx.hasWeapon, hasWeapon),
               isInvincible |-> Coalesce(fx.isInvincible, isInvincible),
               hasShield |-> Coalesce(fx.hasShield, hasShield),
               lives |-> lives + fx.lives,
               cameraX |-> CameraLogic2(cameraX, i7.p.x)]
      \* the effect's dependencies: a change runs its cleanup and starts a
      \* new loop, whose cooldown locals start at 0
      rerun == next # [gameState |-> gameState, hasWeapon |-> hasWeapon,
                       isInvincible |-> isInvincible, hasShield |-> hasShield,
                       lives |-> lives, cameraX |-> cameraX]
  IN [playerState |-> i7.p,
      gameEntities |-> i7.nextEntities,
      afterConsole |-> i7.current,
      objects |-> [r \in live |-> s.objs[r]],
      particles |-> Shrink(particles \o [i \in 1..s.hits |-> PARTICLE_WIDTH]),
      shootCooldown |-> IF rerun THEN 0 ELSE s.shootCooldown,
      spambotCooldown |-> IF rerun THEN 0 ELSE s.spambotCooldown,
      bossCooldown |-> IF rerun THEN 0 ELSE s.bossCooldown,
      \* an invincibility box starts the timeout; the cleanup clears it
      invincibleTimer |-> IF rerun THEN FALSE
                          ELSE fx.isInvincible = Some(TRUE) \/ invincibleTimer,
      state |-> next,
      fired |-> fx.fired]

\* the interaction loop of a frame whose effect closed over isInvincible =
\* false
InteractVulnerable(s, keys) ==
  Rendered(s, InteractLoop([p |-> s.p, fx |-> s.fx, nextEntities |-> << >>,
                            current |-> s.merged],
                           s.merged, s.objs, keys, lives, hasShield,
                           FALSE, 1, Len(s.merged)))

\* the interaction loop of a frame whose effect closed over hasShield = false
InteractUnshielded(s, keys) ==
  Rendered(s, InteractLoop([p |-> s.p, fx |-> s.fx, nextEntities |-> << >>,
                            current |-> s.merged],
                           s.merged, s.objs, keys, lives, FALSE,
                           isInvincible, 1, Len(s.merged)))

\* lines 1144-1200 after Simulate gave s; keys: all the keys held
Interact(s, keys) ==
  Rendered(s, InteractLoop([p |-> s.p, fx |-> s.fx, nextEntities |-> << >>,
                            current |-> s.merged],
                           s.merged, s.objs, keys, lives, hasShield,
                           isInvincible, 1, Len(s.merged)))

gameLoop2(keys, dt) == Interact(Simulate(keys, dt), keys)


\* ------------------------------------------------------------------------
\* The variables of the variant that does not run
\* ------------------------------------------------------------------------
Idle1 ==
  /\ player = InitialPlayer /\ enemies = << >> /\ level = << >>
  /\ projectiles = << >> /\ initialEnemies = << >>

Idle2 ==
  /\ playerState = InitialPlayerState /\ gameEntities = << >>
  /\ objects = << >>
  /\ hasShield = FALSE /\ hasWeapon = FALSE /\ isInvincible = FALSE
  /\ invincibleTimer = FALSE
  /\ shootCooldown = 0 /\ spambotCooldown = 0 /\ bossCooldown = 0

\* ------------------------------------------------------------------------
\* Variant 1: actions
\* ------------------------------------------------------------------------
Tick1 ==
  /\ variant = 1 /\ gameState = "playing"
  /\ \E solid \in {SelectSeq(level, Collidable)} : \E w \in {Autonomous} :
       \E mk \in MoveKeySets :
         \E u1 \in {PlayerLogic(player, mk, solid, lives)} :
           \E u2 \in {CollisionDetection(u1.p, enemies, projectiles, lives)} :
             \E ik \in SUBSET InteractKeys :
               \E draws \in [BoxesHit(u2.p, level) -> Powerups] :
                 \E r \in {FinishLoop(mk \cup ik, draws, u1, u2, w)} :
                    /\ player' = r.player
                    /\ level' = r.level
                    /\ enemies' = r.enemies
                    /\ projectiles' = r.projectiles
                    /\ particles' = r.particles
                    /\ lives' = r.lives
                    /\ gameState' = r.gameState
                    /\ cameraX' = r.cameraX
  /\ UNCHANGED << variant, templates, vars2 >>

PlayerShots(projs) ==
  Cardinality({i \in 1..Len(projs) : projs[i].owner = "player"})

\* handleKeyUp of 'x': fires when the player holds the weapon
KeyUpX1 ==
  /\ variant = 1 /\ player.hasWeapon
  /\ PlayerShots(projectiles) < Volley(levelData)
  /\ projectiles' = Append(projectiles,
        Projectile(player.x + (IF player.direction = "right"
                               THEN PLAYER_WIDTH ELSE -PROJECTILE_SIZE),
                   player.y + PLAYER_HEIGHT \div 2,
                   IF player.direction = "right" THEN PLAYER_SHOT_SPEED
                   ELSE -PLAYER_SHOT_SPEED, "player"))
  /\ UNCHANGED << variant, gameState, lives, cameraX, player, enemies, level,
                  particles, templates, vars2 >>

\* a restart button that pauses the game instead
ResetPauses1 ==
  /\ variant = 1 /\ gameState \in {"start", "lose", "win"}
  /\ gameState' = "paused"
  /\ UNCHANGED << variant, cameraX, templates, vars2, player, enemies, level,
                  projectiles, particles, lives >>

\* resetGame: the button of the start screen and of both end screens
ResetGame1 ==
  /\ variant = 1 /\ gameState \in {"start", "lose", "win"}
  /\ player' = InitialPlayer
  /\ enemies' = initialEnemies
  /\ level' = levelData
  /\ projectiles' = << >>
  /\ particles' = << >>
  /\ lives' = INITIAL_LIVES
  /\ gameState' = "playing"
  /\ UNCHANGED << variant, cameraX, templates, vars2 >>

\* the first App after construction, over one level template
Init1(lvl, ens) ==
  /\ variant = 1
  /\ levelData = lvl
  /\ initialEnemies = ens
  /\ gameState = "start"
  /\ lives = INITIAL_LIVES
  /\ cameraX = 0
  /\ player = InitialPlayer
  /\ enemies = ens
  /\ level = lvl
  /\ projectiles = << >>
  /\ particles = << >>
  /\ Idle2

\* ------------------------------------------------------------------------
\* Variant 2: actions
\* ------------------------------------------------------------------------
\* the refs and the state of the next render, from the result r of gameLoop
Render2(r) ==
  /\ playerState' = r.playerState
  /\ gameEntities' = r.gameEntities
  /\ objects' = r.objects
  /\ particles' = r.particles
  /\ shootCooldown' = r.shootCooldown
  /\ spambotCooldown' = r.spambotCooldown
  /\ bossCooldown' = r.bossCooldown
  /\ invincibleTimer' = r.invincibleTimer
  /\ gameState' = r.state.gameState
  /\ hasWeapon' = r.state.hasWeapon
  /\ isInvincible' = r.state.isInvincible
  /\ hasShield' = r.state.hasShield
  /\ lives' = r.state.lives
  /\ cameraX' = r.state.cameraX

\* one animation frame of the second App
Tick2 ==
  /\ variant = 2 /\ gameState = "playing"
  /\ Len(gameEntities) <= MaxRegistry
  /\ \E dt \in DeltaTimes : \E mk \in MoveKeySets : \E xk \in SUBSET {"x"} :
       \E s \in {Simulate(mk \cup xk, dt)} :
         \E ik \in SUBSET InteractKeys :
            Render2(Interact(s, mk \cup xk \cup ik))
  /\ UNCHANGED << variant, levelData, vars1 >>

\* a frame that arrives late: requestAnimationFrame was paused meanwhile
LateTick2 ==
  /\ variant = 2 /\ gameState = "playing"
  /\ Len(gameEntities) <= MaxRegistry
  /\ \E dt \in LateDeltaTimes : \E mk \in MoveKeySets :
       \E xk \in SUBSET {"x"} :
          \E s \in {Simulate(mk \cup xk, dt)} :
            \E ik \in SUBSET InteractKeys :
               Render2(Interact(s, mk \cup xk \cup ik))
  /\ UNCHANGED << variant, levelData, vars1 >>

\* a restart that keeps the lives of the session that has ended
ResetKeepsLives2 ==
  /\ variant = 2 /\ gameState \in {"start", "gameOver", "levelComplete"}
  /\ playerState' = InitialPlayerState
  /\ objects' = levelData
  /\ gameEntities' = [i \in 1..Len(levelData) |-> i]
  /\ hasShield' = FALSE
  /\ hasWeapon' = FALSE
  /\ isInvincible' = FALSE
  /\ invincibleTimer' = FALSE
  /\ gameState' = "playing"
  /\ shootCooldown' = 0 /\ spambotCooldown' = 0 /\ bossCooldown' = 0
  /\ UNCHANGED << variant, levelData, cameraX, particles, vars1, lives >>

\* resetGame of the second App: start screen and both end screens
ResetGame2 ==
  /\ variant = 2 /\ gameState \in {"start", "gameOver", "levelComplete"}
  /\ playerState' = InitialPlayerState
  /\ objects' = levelData
  /\ gameEntities' = [i \in 1..Len(levelData) |-> i]
  /\ lives' = INITIAL_LIVES2
  /\ hasShield' = FALSE
  /\ hasWeapon' = FALSE
  /\ isInvincible' = FALSE
  /\ invincibleTimer' = FALSE
  /\ gameState' = "playing"
  \* the state change re-runs the effect: a new loop, cooldowns at 0
  /\ shootCooldown' = 0 /\ spambotCooldown' = 0 /\ bossCooldown' = 0
  /\ UNCHANGED << variant, levelData, cameraX, particles, vars1 >>

\* the callback of the timeout an invincibility box started (line 1021),
\* 5000 ms later, when no cleanup cleared it
InvincibleTimeout2 ==
  /\ variant = 2 /\ invincibleTimer
  /\ isInvincible' = FALSE
  /\ invincibleTimer' = FALSE
  \* a change of isInvincible re-runs the effect: a new loop, cooldowns at 0
  /\ shootCooldown' = IF isInvincible THEN 0 ELSE shootCooldown
  /\ spambotCooldown' = IF isInvincible THEN 0 ELSE spambotCooldown
  /\ bossCooldown' = IF isInvincible THEN 0 ELSE bossCooldown
  /\ UNCHANGED << variant, gameState, lives, cameraX, particles, levelData,
                  vars1, playerState, gameEntities, objects, hasShield,
                  hasWeapon >>

\* the second App after construction, over one level template
Init2(lvl) ==
  /\ variant = 2
  /\ levelData = lvl
  /\ gameState = "start"
  /\ lives = INITIAL_LIVES2
  /\ cameraX = 0
  /\ particles = << >>
  /\ playerState = InitialPlayerState
  /\ objects = lvl
  /\ gameEntities = [i \in 1..Len(lvl) |-> i]
  /\ hasShield = FALSE /\ hasWeapon = FALSE /\ isInvincible = FALSE
  /\ invincibleTimer = FALSE
  /\ shootCooldown = 0 /\ spambotCooldown = 0 /\ bossCooldown = 0
  /\ Idle1

Init ==
  \/ Init1(GateLevel, GateEnemies)
  \/ Init1(BoxLevel, BoxEnemies)
  \/ Init2(GateLevel2)
  \/ Init2(BoxLevel2)
  \/ Init2(PatrolLevel2)

Next == Tick1 \/ KeyUpX1 \/ ResetGame1 \/ Tick2 \/ ResetGame2

Spec == Init /\ [][Next]_vars

\* ------------------------------------------------------------------------
\* Specifications of one variant over further levels
\* ------------------------------------------------------------------------
Next1 == Tick1 \/ KeyUpX1 \/ ResetGame1

Next2 == Tick2 \/ ResetGame2

SpecArena ==
  (Init1(ArenaLevel, ArenaEnemies) \/ Init2(ArenaLevel2)) /\ [][Next]_vars

SpecLife2 == Init2(LifeLevel2) /\ [][Next2]_vars

\* a session over the timed power-up, the one level with invincibility boxes
\* and so the one level where a timeout is ever started
NextTimed == Tick2 \/ ResetGame2 \/ InvincibleTimeout2

SpecTimed == Init2(TimedLevel2) /\ [][NextTimed]_vars

\* a session of the second App over the duel
SpecDuel2 == Init2(DuelLevel2) /\ [][Next2]_vars

\* a session of the second App over the pacer
SpecPacer2 == Init2(PacerLevel2) /\ [][Next2]_vars

\* a session of the first App over the tall box
SpecTallBox == Init1(TallBoxLevel, NoEnemies) /\ [][Next1]_vars

\* sessions over the two levels with a corner to land on
NextCorner == Tick1 \/ ResetGame1 \/ Tick2 \/ ResetGame2

SpecCorner ==
  (Init1(PitLevel, PitEnemies) \/ Init2(CornerLevel2)) /\ [][NextCorner]_vars

\* sessions over the levels with orphaned consoles
SpecOrphan ==
  (Init1(OrphanLevel, NoEnemies) \/ Init2(OrphanLevel2)) /\ [][NextCorner]_vars

\* the outcome r of a tick differs from the state the tick started in
TickMoves1(r) ==
  << r.player, r.level, r.enemies, r.projectiles, r.particles, r.lives,
     r.gameState, r.cameraX >>
    # << player, level, enemies, projectiles, particles, lives, gameState,
         cameraX >>

\* some input makes the next tick of the first App change the state: the
\* state predicate that ENABLED <<Tick1>>_vars is
TickActs1 ==
  /\ variant = 1 /\ gameState = "playing"
  /\ \E mk \in MoveKeySets : \E ik \in SUBSET InteractKeys :
       \E draws \in DrawSets(mk \cup ik) :
          TickMoves1(gameLoop(mk \cup ik, draws))

\* Sessions in which the frames keep coming: requestAnimationFrame calls
\* gameLoop again for as long as the game is being played, so a tick that
\* can run does run.  The condition is WF_vars(Tick1) with its ENABLED
\* written as the state predicate above.  The tall box level holds no
\* enemy: whatever flies was fired by the player, one shot at a time.
FramesKeepComing1 == []<>(~TickActs1) \/ []<><<Tick1>>_vars

SpecFair ==
  /\ Init1(TallBoxLevel, NoEnemies) \/ Init2(DuelLevel2)
  /\ [][Next]_vars
  /\ FramesKeepComing1

\* Sessions over the two levels of the grace window.  The pit holds no
\* power-up box, so the weapon is never held and the key-up of 'x' changes
\* nothing; the one timeout of the shelter is cleared by the re-render that
\* follows the strike of its box.
NextGrace == Tick1 \/ ResetGame1 \/ Tick2 \/ LateTick2 \/ ResetGame2

SpecGrace ==
  (Init1(PitLevel, PitEnemies) \/ Init2(ShelterLevel2)) /\ [][NextGrace]_vars

\* ------------------------------------------------------------------------
\* Properties
\* ------------------------------------------------------------------------
Lost == gameState \in {"lose", "gameOver"}

\* C11: the game is lost only when lives have reached 0: in every state,
\* gameState = lose (variant 2: gameOver) implies lives <= 0.
LoseOnlyWithoutLives == Lost => lives <= 0

\* C12: the health of every hostile entity is at least 0 in every state.
HealthNeverNegative ==
  /\ \A i \in 1..Len(enemies) : Coalesce(enemies[i].health, 0) >= 0
  /\ \A r \in DOMAIN objects : Coalesce(objects[r].health, 0) >= 0

\* C13: gameplay is reproducible: from one state, a tick with the same keys
\* has one outcome, whatever Math.random() draws.
Reproducible ==
  (variant = 1 /\ gameState = "playing") =>
     \A keys \in KeySets : \A d1 \in DrawSets(keys) : \A d2 \in DrawSets(keys) :
        gameLoop(keys, d1) = gameLoop(keys, d2)

\* the player positions a camera update is tried on: left of 0, inside the
\* level and beyond its width
ProbeX == {-LEVEL_WIDTH, -1, 0, WIDTH \div 2, LEVEL_WIDTH, 2 * LEVEL_WIDTH}

ProbeX2 ==
  {-Px(LEVEL_WIDTH2), -1, 0, Px(GAME_WIDTH), Px(LEVEL_WIDTH2),
   2 * Px(LEVEL_WIDTH2)}

\* C14: the camera stays within the level: 0 <= cameraX <= LEVEL_WIDTH minus
\* the viewport width in every state, and the next camera does so for any
\* player x, also left of 0 or beyond the level width.
CameraWithinLevel ==
  /\ variant = 1 =>
       /\ cameraX \in 0..(LEVEL_WIDTH - WIDTH)
       /\ \A x \in ProbeX :
            CameraLogic(cameraX, x) \in 0..(LEVEL_WIDTH - WIDTH)
  /\ variant = 2 =>
       /\ cameraX \in 0..(Px(LEVEL_WIDTH2) - Px(GAME_WIDTH))
       /\ \A x \in ProbeX2 :
            CameraLogic2(cameraX, x) \in 0..(Px(LEVEL_WIDTH2) - Px(GAME_WIDTH))

\* C14, witness: the player has walked left of 0 during two ticks or more,
\* and the camera, updated from a player x below 0, is held at 0
CameraHeldAtZero ==
  /\ variant = 1 /\ gameState = "playing"
  /\ player.x < -PLAYER_SPEED /\ cameraX = 0

\* a level entity of variant 1 whose one-shot effect has run already
FiredBefore(lvl, i) ==
  \/ lvl[i].type = "power-up-box" /\ lvl[i].hit
  \/ lvl[i].type = "log" /\ lvl[i].collected
  \/ /\ lvl[i].type = "console"
     /\ \E k \in 1..Len(lvl) : /\ lvl[k].id = lvl[i].linkedElementId
                                /\ lvl[k].type = "firewall" /\ ~lvl[k].active

\* no entity of fired is one that has fired before
OnlyFirstFirings(lvl, fired) ==
  \A k \in 1..Len(fired) : \A i \in 1..Len(lvl) :
     lvl[i].id = fired[k] => ~FiredBefore(lvl, i)

OnlyFirstFirings2(objs, fired) ==
  \A k \in 1..Len(fired) : \A r \in DOMAIN objs :
     objs[r].id = fired[k] => ~objs[r].hit

\* C15: one-shot triggers are idempotent: a power-up box, a console or a log
\* that has been triggered is not triggered again by any later tick: no
\* further effect and no new message, whatever the keys.
OneShotTriggers ==
  /\ (variant = 1 /\ gameState = "playing") =>
       \A keys \in KeySets : \A draws \in DrawSets(keys) :
          OnlyFirstFirings(level, gameLoop(keys, draws).fired)
  /\ (variant = 2 /\ gameState = "playing"
                  /\ Len(gameEntities) <= MaxRegistry) =>
       \A dt \in DeltaTimes : \A keys \in SUBSET Keys2 :
          OnlyFirstFirings2(objects, gameLoop2(keys, dt).fired)

\* the player's projectiles of variant 2 among the entities ents
PlayerShots2(ents, objs) ==
  Cardinality({i \in 1..Len(ents) : objs[ents[i]].type = "projectile"})

\* a step that creates no player projectile while the weapon is not held
NoNewShot ==
  /\ (variant = 1 /\ ~player.hasWeapon) =>
        PlayerShots(projectiles') <= PlayerShots(projectiles)
  /\ (variant = 2 /\ ~hasWeapon) =>
        PlayerShots2(gameEntities', objects')
           <= PlayerShots2(gameEntities, objects)

\* C16: while hasWeapon is false, no step (a shoot key event, a tick with the
\* shoot key held) creates a player projectile.
NoShotWithoutWeapon == [][NoNewShot]_vars

\* C16, witness: the shoot key would fire (no cooldown left) but for the
\* weapon, which the player does not hold: the tick creates no projectile
UnarmedShotAttempt ==
  /\ variant = 2 /\ gameState = "playing" /\ ~hasWeapon
  /\ Len(gameEntities) <= MaxRegistry /\ Len(gameEntities) > 0
  /\ Shoots({"x"}, TRUE, Max(0, shootCooldown - 1))
  /\ Len(gameLoop2({"x"}, 1).gameEntities) > Len(gameEntities)
  /\ PlayerShots2(gameLoop2({"x"}, 1).gameEntities,
                  gameLoop2({"x"}, 1).objects) = 0

\* the goal of level lvl is active
GoalActive(lvl) == \E i \in 1..Len(lvl) : lvl[i].type = "goal" /\ lvl[i].active

\* a step after which the goal is inactive if a boss is left, and active if
\* the step has removed the last boss
GoalStep ==
  /\ HasBoss(enemies') => ~GoalActive(level')
  /\ (HasBoss(enemies) /\ ~HasBoss(enemies')) => GoalActive(level')

\* C17: the goal is inactive in every state with a boss in the registry, and
\* becomes active during the very tick that removes the last boss.
GoalOpensWithLastBoss == ~(HasBoss(enemies) /\ GoalActive(level)) /\ [][GoalStep]_vars

\* the bosses of variant 2: the references of the boss objects
Bosses2(objs) == {r \in DOMAIN objs : objs[r].type = "boss"}

\* the player projectiles a frame of variant 2 tests against the enemies:
\* those of the registry and the one the frame may fire, after their move
ShotsOfFrame ==
  LET flying == {objects[gameEntities[i]] : i \in 1..Len(gameEntities)}
      fired == IF hasWeapon
               THEN {PlayerShot(Movement(playerState, keys)) :
                       keys \in SUBSET Keys2}
               ELSE {}
  IN {[pr EXCEPT !.x = @ + pr.vx, !.y = @ + pr.vy] :
        pr \in {q \in flying \cup fired : q.type = "projectile"}}

\* a step of a session that raises no boss's health, and changes it only
\* when a player projectile overlaps that boss
BossHealthStep ==
  /\ \A i \in 1..Len(enemies) : \A j \in 1..Len(enemies') :
       (enemies[i].type = "The Adware King" /\ enemies'[j].id = enemies[i].id)
       => /\ enemies'[j].health[1] <= enemies[i].health[1]
          /\ enemies'[j].health # enemies[i].health
               => \E k \in 1..Len(projectiles) :
                     HitsEnemy(projectiles[k], enemies[i])
  /\ \A r \in Bosses2(objects) \cap Bosses2(objects') :
       /\ objects'[r].health[1] <= objects[r].health[1]
       /\ objects'[r].health # objects[r].health
            => \E pr \in ShotsOfFrame :
                  \/ checkCollision(pr, objects[r])
                  \/ checkCollision(pr, objects'[r])

\* C18: within a session the boss's health never rises, and it changes only
\* in a tick in which a player projectile overlaps the boss.
BossHealthMonotone ==
  [][gameState = "playing" => BossHealthStep]_vars

\* C18, witness: a boss that has lost health, in each variant's arena
BossWounded ==
  \/ \E i \in 1..Len(enemies) :
       /\ enemies[i].type = "The Adware King"
       /\ enemies[i].health[1] < KING_HEALTH
  \/ \E r \in Bosses2(objects) : objects[r].health[1] < BOSS_HEALTH

\* no two entries of the sequence ids are equal
Distinct(ids) == \A i \in 1..Len(ids) : \A j \in 1..Len(ids) : ids[i] = ids[j] => i = j

\* the entries of the registry of variant 2 that are no projectiles
Fixtures2(ents, objs) ==
  Cardinality({i \in 1..Len(ents) : ~IsProjectile(objs[ents[i]])})

\* no two entities of a live registry share an id
UniqueIds ==
  /\ Distinct([i \in 1..Len(level) |-> level[i].id])
  /\ Distinct([i \in 1..Len(enemies) |-> enemies[i].id])
  /\ Distinct([i \in 1..Len(gameEntities) |-> objects[gameEntities[i]].id])

\* a step of a session that adds no entity other than projectiles
NoGrowthStep ==
  /\ Len(level') <= Len(level)
  /\ Len(enemies') <= Len(enemies)
  /\ Fixtures2(gameEntities', objects') <= Fixtures2(gameEntities, objects)

\* C19: in every state the entities of a live registry have distinct ids,
\* and no step of a session adds an entity that is not a projectile.
RegistryStaysSound ==
  []UniqueIds /\ [][gameState = "playing" => NoGrowthStep]_vars

\* C20: timed invincibility in the second App always ends: once the
\* invincibility power-up has set isInvincible, the timeout that ends it is
\* still pending, so the re-run of the game-loop effect that the state change
\* causes has not lost the expiry timer
ExpiryTimerKept == (variant = 2 /\ isInvincible) => invincibleTimer

\* the player box of the second App overlaps no platform and no firewall
Clear2(a) ==
  \A i \in 1..Len(a.ents) :
     a.objs[a.ents[i]].type \in {"platform", "firewall"} =>
        ~checkCollision(PlayerBox(a.p), a.objs[a.ents[i]])

\* C1: after the collision-resolution step of any tick (variant 1: the
\* level.forEach pass; variant 2: the X-axis pass, then the Y-axis pass) the
\* player's box overlaps no platform and no active firewall, in every
\* reachable state and whatever keys the tick reads.
NoTunneling ==
  /\ (variant = 1 /\ gameState = "playing") =>
       \A keys \in MoveKeySets : \A i \in 1..Len(level) :
          Collidable(level[i]) => ~checkCollision(Moved(keys).box, level[i])
  /\ (variant = 2 /\ gameState = "playing") =>
       \A keys \in MoveKeySets : \A dt \in DeltaTimes :
          Clear2(YAxis(XAxis(Shooting(keys), dt), dt))

\* C1, witness: the player stands against an active firewall; the move to
\* the right would enter it, and the collision pass holds the player back
BlockedByFirewall ==
  /\ variant = 1 /\ gameState = "playing"
  /\ \E i \in 1..Len(level) :
       /\ level[i].type = "firewall" /\ level[i].active
       /\ checkCollision(Rect(player.x + PLAYER_SPEED, player.y + GRAVITY,
                              PLAYER_WIDTH, PLAYER_HEIGHT), level[i])
  /\ Moved({"right"}).p.x = player.x

Won == gameState \in {"win", "levelComplete"}

\* a boss-kind entity is in the registry
BossPresent ==
  IF variant = 1 THEN HasBoss(enemies)
  ELSE \E i \in 1..Len(gameEntities) : objects[gameEntities[i]].type = "boss"

\* C2: the game state is never win (variant 2: levelComplete) while a
\* boss-kind entity is in the registry: overlapping the goal ends the level
\* only after the boss has been removed.
WinOnlyAfterBoss == Won => ~BossPresent

\* the ids a sequence of ids holds
Ids(s) == {s[i] : i \in 1..Len(s)}

\* variant 1: the level lvl holds no active firewall of id target
FirewallOff(lvl, target) ==
  \A k \in 1..Len(lvl) :
     (lvl[k].type = "firewall" /\ lvl[k].id = target) => ~lvl[k].active

\* variant 2: the registry ents holds no entity of id target
FirewallGone(ents, objs, target) ==
  \A j \in 1..Len(ents) : objs[ents[j]].id # target

\* a tick that reads the interact key with the player on a console leaves
\* the console's firewall deactivated
ConsoleDeactivates ==
  /\ (variant = 1 /\ gameState = "playing") =>
       \A keys \in KeySets : \A draws \in DrawSets(keys) :
          \A i \in 1..Len(level) :
             ConsoleTriggers(Checked(keys).p, level[i], keys) =>
                FirewallOff(gameLoop(keys, draws).level,
                            level[i].linkedElementId)
  /\ (variant = 2 /\ gameState = "playing"
                  /\ Len(gameEntities) <= MaxRegistry) =>
       \A dt \in DeltaTimes : \A keys \in SUBSET Keys2 :
          \A q \in DOMAIN objects :
             (objects[q].type = "console"
                /\ objects[q].id \in Ids(gameLoop2(keys, dt).fired)) =>
                FirewallGone(gameLoop2(keys, dt).gameEntities,
                             gameLoop2(keys, dt).objects, objects[q].targetId)

\* a step of a session that leaves every deactivated firewall deactivated
FirewallStaysOff ==
  /\ variant = 1 =>
       \A k \in 1..Len(level) :
          (level[k].type = "firewall" /\ ~level[k].active) =>
             FirewallOff(level', level[k].id)
  /\ variant = 2 =>
       \A q \in DOMAIN objects' :
          (objects'[q].type = "firewall"
             /\ ~FirewallGone(gameEntities', objects', objects'[q].id)) =>
             ~FirewallGone(gameEntities, objects, objects'[q].id)

\* C3: once the player overlaps a console while the interact key is held,
\* the console's firewall is deactivated at the end of that tick (variant 1:
\* active = false; variant 2: absent from gameEntities), and it stays
\* deactivated on every later tick of the session.
ConsoleDisablesFirewall ==
  []ConsoleDeactivates /\ [][gameState = "playing" => FirewallStaysOff]_vars

\* C4: in every reachable state lives >= 0: no sequence of ticks, also with
\* several damaging events in one tick, drives the lives counter below 0.
LivesNeverNegative == lives >= 0

\* variant 2: the frame with these inputs takes a life in the interaction
\* loop (contact with an enemy, a hostile projectile or the boss)
Contact2(keys, dt) ==
  gameLoop2(keys, dt).state.lives - lives < Simulate(keys, dt).fx.lives

\* C5: when lives = 1 and the player takes damaging contact while neither
\* shielded nor invincible, the tick ends with lives = 0 and the game lost.
LastLifeLost ==
  /\ (variant = 1 /\ gameState = "playing" /\ lives = 1) =>
       \A keys \in KeySets : \A draws \in DrawSets(keys) :
          Checked(keys).lifeLost =>
             /\ gameLoop(keys, draws).lives = 0
             /\ gameLoop(keys, draws).gameState = "lose"
  /\ (variant = 2 /\ gameState = "playing" /\ lives = 1
                  /\ ~hasShield /\ ~isInvincible
                  /\ Len(gameEntities) <= MaxRegistry) =>
       \A dt \in DeltaTimes : \A keys \in SUBSET Keys2 :
          Contact2(keys, dt) =>
             /\ gameLoop2(keys, dt).state.lives = 0
             /\ gameLoop2(keys, dt).state.gameState = "gameOver"

\* variant 2: the frame that goes on from s, with no box struck and no
\* fall in s, absorbs every hostile projectile on the player
Absorbed2(s, keys) ==
  \A j \in 1..Len(s.merged) :
     (/\ s.objs[s.merged[j]].type = "enemyProjectile"
      /\ checkCollision(PlayerBox(s.p), s.objs[s.merged[j]])
      /\ s.fx = NoEffects) =>
        /\ ~Interact(s, keys).state.hasShield
        /\ Interact(s, keys).state.lives = lives
        /\ s.merged[j] \notin Ids(Interact(s, keys).gameEntities)

EnemyIds(ens) == {ens[k].id : k \in 1..Len(ens)}

\* variant 1: enemy id is gone from ens, or is left there without health
Finished(ens, id) ==
  \A k \in 1..Len(ens) : ens[k].id = id => Coalesce(ens[k].health, 1) <= 0

\* variant 2: the frame that goes on from s, the state after the entity
\* logic, emits particles for every enemy whose health a player projectile
\* of this frame has taken from 1 to 0, keeps no player projectile that lies
\* on such an enemy, and removes every enemy that had no health left
Destroyed2(s, keys) ==
  \A r \in DOMAIN objects :
     /\ (/\ IsHostile(objects[r]) /\ Coalesce(objects[r].health, 1) = 1
         /\ s.objs[r].health = Some(0)) =>
           /\ Interact(s, keys).particles # << >>
           /\ \A q \in Ids(Interact(s, keys).gameEntities) :
                 s.objs[q].type = "projectile" =>
                    ~checkCollision(s.objs[q], s.objs[r])
     /\ (/\ IsHostile(objects[r]) /\ objects[r].health = Some(0)
         /\ r \in Ids(gameEntities)) =>
           r \notin Ids(Interact(s, keys).gameEntities)

\* C7: when a player-owned projectile overlaps an enemy whose health is 1
\* (an enemy without a health field counts as health 1), that enemy is
\* removed from the registry, a particle burst is emitted and that
\* projectile is removed.  Stated with one tick of grace: the tick of the
\* hit leaves the enemy without health or removes it, and an enemy without
\* health is gone from the registry when the next tick ends.  (On the
\* opacity scale of the variant 1 model a burst has decayed when the tick
\* ends; the burst is stated for variant 2.)
LastHitRemovesEnemy ==
  /\ (variant = 1 /\ gameState = "playing") =>
       \A keys \in KeySets : \A draws \in DrawSets(keys) :
          \A j \in 1..Len(enemies) :
             /\ \A i \in 1..Len(projectiles) :
                   (/\ HitsEnemy(projectiles[i], enemies[j])
                    /\ Coalesce(enemies[j].health, 1) = 1) =>
                      /\ Finished(gameLoop(keys, draws).enemies, enemies[j].id)
                      /\ MoveProjectile(projectiles[i])
                           \notin Ids(gameLoop(keys, draws).projectiles)
             /\ Coalesce(enemies[j].health, 1) <= 0 =>
                   enemies[j].id \notin EnemyIds(gameLoop(keys, draws).enemies)
  /\ (variant = 2 /\ gameState = "playing"
                  /\ Len(gameEntities) <= MaxRegistry) =>
       \A dt \in DeltaTimes : \A keys \in SUBSET Keys2 :
          Destroyed2(Simulate(keys, dt), keys)

\* the registry of variant 2 as the array of its objects
Registry2(ents, objs) == [i \in 1..Len(ents) |-> objs[ents[i]]]

\* the state a restart leaves: the player at the spawn point, at rest and
\* without power-up, three lives, no projectile, no pending timeout, and the
\* registries equal to the templates
Restarted ==
  /\ variant = 1 =>
       /\ player'.x = SPAWN_X /\ player'.y = SPAWN_Y /\ player'.vy = 0
       /\ ~player'.hasWeapon /\ ~player'.hasShield /\ ~player'.isInvincible
       /\ lives' = INITIAL_LIVES
       /\ projectiles' = << >>
       /\ enemies' = initialEnemies /\ level' = levelData
       /\ \A i \in 1..Len(level') :
            /\ level'[i].type = "firewall" => level'[i].active
            /\ level'[i].type = "goal" => ~level'[i].active
            /\ ~level'[i].hit /\ ~level'[i].collected
       /\ \A j \in 1..Len(enemies') :
            enemies'[j].health = enemies'[j].maxHealth
  /\ variant = 2 =>
       /\ playerState'.x = Px(SPAWN_X2) /\ playerState'.y = Px(SPAWN_Y2)
       /\ playerState'.vx = 0 /\ playerState'.vy = 0
       /\ ~hasWeapon' /\ ~hasShield' /\ ~isInvincible' /\ ~invincibleTimer'
       /\ lives' = INITIAL_LIVES2
       /\ Registry2(gameEntities', objects') = levelData
       /\ \A r \in DOMAIN objects' :
            /\ ~IsProjectile(objects'[r]) /\ ~objects'[r].hit
            /\ objects'[r].type = "boss" =>
                 objects'[r].health = Some(BOSS_HEALTH)

\* a step of the model: a restart leaves the restarted state, and no step
\* changes the templates
RestartStep ==
  /\ (gameState # "playing" /\ gameState' = "playing") => Restarted
  /\ templates' = templates

\* C8: after a restart (resetGame) from any reachable state the player is at
\* the spawn point with zero velocity and without weapon, shield or
\* invincibility, lives = 3, no projectile exists, and the enemy and level
\* registries equal the static templates (firewalls active, no box hit, no
\* log collected, goal inactive, boss at full health); no sequence of ticks
\* changes the templates.
RestartRestoresTemplates == [][RestartStep]_vars

\* C8, witness: a session of variant 1 has ended with a level registry that
\* differs from the template; the restart button is the way on
SessionLeftItsMark ==
  /\ variant = 1 /\ gameState \in {"lose", "win"}
  /\ level # levelData

\* a step of the model: a restart leaves the camera offset at 0
CameraResetStep ==
  (gameState # "playing" /\ gameState' = "playing") => cameraX' = 0

\* C9: a restart also reinitializes the camera: immediately after resetGame
\* the camera offset is 0, whatever it was when the session ended.
RestartResetsCamera == [][CameraResetStep]_vars

\* the moves of the game state: begin, win, lose, restart (variant 2 names
\* win levelComplete and lose gameOver)
Moves ==
  { <<"start", "playing">>,
    <<"playing", "win">>, <<"playing", "lose">>,
    <<"win", "playing">>, <<"lose", "playing">>,
    <<"playing", "levelComplete">>, <<"playing", "gameOver">>,
    <<"levelComplete", "playing">>, <<"gameOver", "playing">> }

MoveStep == gameState' # gameState => <<gameState, gameState'>> \in Moves

\* C10: the game state only ever moves start -> playing, playing -> win,
\* playing -> lose and win/lose -> playing; start is never re-entered and
\* 'paused' is never reached.
OnlyDeclaredMoves == [](gameState # "paused") /\ [][MoveStep]_vars

\* C10, witness: a session of variant 1 has been lost on the last life
SessionLost == variant = 1 /\ gameState = "lose" /\ lives = 0

\* a tick of the first App that grants invincibility: damage or shield loss
\* in the second updater, the invincibility power-up in the third
Granted(keys, draws) ==
  \/ Checked(keys).p.isInvincible /\ ~Moved(keys).p.isInvincible
  \/ \E i \in DOMAIN draws : draws[i] = "invincibility"

\* C21: in variant 1, on every playing tick that starts with isInvincible
\* set and grants no new invincibility, the counter is decremented by exactly
\* 1 and isInvincible is true after the tick exactly when the counter is
\* still above 0, so that a grant of N ticks ends N ticks later.
InvincibilityCountsDown ==
  (variant = 1 /\ gameState = "playing" /\ player.isInvincible) =>
     \A keys \in KeySets : \A draws \in DrawSets(keys) :
        Granted(keys, draws)
        \/ LET p == gameLoop(keys, draws).player
           IN /\ p.invincibleTimer = player.invincibleTimer - 1
              /\ p.isInvincible = (p.invincibleTimer > 0)

\* a step that creates a player projectile
FiredStep ==
  \/ PlayerShots(projectiles') > PlayerShots(projectiles)
  \/ PlayerShots2(gameEntities', objects')
        > PlayerShots2(gameEntities, objects)

\* the next shoot event would create a player projectile: the key-up of 'x'
\* in the first App (line 597), a frame with 'x' held in the second (line 961)
CanFire ==
  \/ variant = 1 /\ player.hasWeapon
  \/ /\ variant = 2 /\ gameState = "playing"
     /\ Shoots({"x"}, hasWeapon, Max(0, shootCooldown - 1))

\* a step that has created a player projectile leaves a state in which the
\* next shoot event creates none
RateLimitStep == FiredStep => ~CanFire'

\* C22: player fire is rate-limited by a cooldown: right after a step that
\* has created a player projectile, no shoot event creates a second one,
\* whatever the keys and whatever re-render re-creates the game loop.
FireRateLimited == [][RateLimitStep]_vars

\* the keys a frame of the second App reads before the interaction loop
SimKeys == {mk \cup xk : mk \in MoveKeySets, xk \in SUBSET {"x"}}

\* projectile pr of variant 1 is a shot of Spam-bot e that has not flown yet
AtMuzzle1(pr, e) ==
  pr.owner = "enemy" /\ pr.x = e.x /\ pr.y = e.y + SPAMBOT_SHOT_DY

\* the same for object pr and spam-bot e of variant 2, d pixels from the
\* muzzle
AtMuzzle2(pr, e, d) ==
  /\ pr.type = "enemyProjectile" /\ pr.y = e.y + Px(SPAMBOT_SHOT_DY2)
  /\ Abs(pr.x - (e.x + e.width \div 2)) = Px(d)

\* the shooter's side of a shot: its velocity points toward player x px
Toward(vx, px, ex) == (px < ex => vx < 0) /\ (px > ex => vx > 0)

\* tick result r of variant 1 treats Spam-bot e as a stationary shooter
Disciplined1(r, e) ==
  LET shots == {k \in 1..Len(r.projectiles) : AtMuzzle1(r.projectiles[k], e)}
  IN /\ \A j \in 1..Len(r.enemies) :
          r.enemies[j].id = e.id => r.enemies[j].x = e.x /\ r.enemies[j].y = e.y
     /\ Cardinality(shots) <= 1
     /\ \A k \in shots :
          /\ e.shootCooldown <= 0
          /\ Abs(player.x - e.x) < SPAMBOT_RANGE
          /\ Toward(r.projectiles[k].vx, player.x, e.x)
          \* the last tick did not fire
          /\ \A q \in 1..Len(projectiles) : ~AtMuzzle1(projectiles[q], e)

\* the result s of Simulate treats the spam-bot at reference b as a
\* stationary shooter
Disciplined2(s, b) ==
  LET e == objects[b]
      shots == {k \in 1..Len(s.merged) : AtMuzzle2(s.objs[s.merged[k]], e, 0)}
  IN /\ s.objs[b].x = e.x /\ s.objs[b].y = e.y
     /\ Cardinality(shots) <= 1
     /\ \A k \in shots :
          /\ Max(0, spambotCooldown - 1) = 0
          /\ Abs(s.p.x - e.x) < Px(SPAMBOT_RANGE2)
          /\ Toward(s.objs[s.merged[k]].vx, s.p.x, e.x)
          \* no frame of the last SPAMBOT_COOLDOWN2 - 1 fired: no shot of e
          \* is that near the muzzle
          /\ \A q \in 1..Len(gameEntities) :
               \A d \in 0..(SPAMBOT_COOLDOWN2 - 1) :
                  ~AtMuzzle2(objects[gameEntities[q]], e,
                             d * SPAMBOT_SHOT_SPEED2)

\* C23: a stationary shooter never moves, fires only on a tick where its
\* cooldown is 0 and the player is within range, each firing creates exactly
\* one hostile projectile flying toward the player's side, and two firings
\* of one shooter are at least the cooldown apart: a tick fires no shot
\* while a shot of the last cooldown period is in flight.
ShooterDiscipline ==
  /\ (variant = 1 /\ gameState = "playing") =>
       \A keys \in KeySets : \A draws \in DrawSets(keys) :
          \A i \in 1..Len(enemies) :
             enemies[i].type = "Spam-bot"
             => Disciplined1(gameLoop(keys, draws), enemies[i])
  /\ (variant = 2 /\ gameState = "playing"
                  /\ Len(gameEntities) <= MaxRegistry) =>
       \A dt \in DeltaTimes : \A keys \in SimKeys :
          \A b \in DOMAIN objects :
             (objects[b].type = "enemy" /\ objects[b].subtype = "spam-bot")
             => Disciplined2(Simulate(keys, dt), b)

\* variant 2: the frame that goes on from s, when its interaction loop takes
\* a life and lives are left, takes exactly one, puts the player at the spawn
\* point at rest and leaves the player invincible
Graced2(s, keys) ==
  LET r == Interact(s, keys)
  IN (r.state.lives - lives < s.fx.lives /\ r.state.lives > 0) =>
        /\ r.state.lives - lives = s.fx.lives - 1
        /\ r.playerState.x = Px(SPAWN_X2) /\ r.playerState.y = Px(SPAWN_Y2)
        /\ r.playerState.vx = 0 /\ r.playerState.vy = 0
        /\ r.state.isInvincible

\* C24: on damaging contact with neither shield nor invincibility that
\* leaves lives > 0, the tick takes exactly 1 life, puts the player at the
\* fixed spawn point with zero velocity and makes the player invincible for
\* a grace window.
ContactCostsOneLife ==
  /\ (variant = 1 /\ gameState = "playing") =>
       \A keys \in KeySets : \A draws \in DrawSets(keys) :
          (/\ Checked(keys).lifeLost /\ ~Moved(keys).lifeLost
           /\ gameLoop(keys, draws).lives > 0) =>
             /\ gameLoop(keys, draws).lives = lives - 1
             /\ gameLoop(keys, draws).player.x = SPAWN_X
             /\ gameLoop(keys, draws).player.y = SPAWN_Y
             /\ gameLoop(keys, draws).player.vy = 0
             /\ gameLoop(keys, draws).player.isInvincible
             /\ gameLoop(keys, draws).player.invincibleTimer = HitTicks
  /\ (variant = 2 /\ gameState = "playing" /\ ~hasShield /\ ~isInvincible
                  /\ Len(gameEntities) <= MaxRegistry) =>
       \A dt \in DeltaTimes : \A keys \in SUBSET Keys2 :
          Graced2(Simulate(keys, dt), keys)

\* the registry entries of s that do no harm
Harmless(s) ==
  SelectSeq(s.merged,
            LAMBDA r : s.objs[r].type \notin {"enemy", "enemyProjectile",
                                              "boss"})

\* variant 2: the frame that goes on from s as it would without the enemies
\* and the hostile projectiles
Uncontested(s, keys) ==
  Rendered(s, InteractLoop([p |-> s.p, fx |-> s.fx, nextEntities |-> << >>,
                            current |-> s.merged],
                           Harmless(s), s.objs, keys, lives, hasShield,
                           isInvincible, 1, Len(Harmless(s))))

\* variant 2: a harmful entry of s lies on the player
Contested(s) ==
  \E j \in 1..Len(s.merged) :
     /\ s.merged[j] \notin Ids(Harmless(s))
     /\ checkCollision(PlayerBox(s.p), s.objs[s.merged[j]])

\* variant 2: the frame that goes on from s ends with the lives, the shield
\* and the player it would end with if nothing harmful were there
Unharmed2(s, keys) ==
  /\ Interact(s, keys).state.lives = Uncontested(s, keys).state.lives
  /\ Interact(s, keys).state.hasShield = Uncontested(s, keys).state.hasShield
  /\ Interact(s, keys).state.gameState = Uncontested(s, keys).state.gameState
  /\ Interact(s, keys).playerState = Uncontested(s, keys).playerState

\* variant 1: the tick as it would end without enemies and projectiles
Uncontested1(keys, draws) ==
  FinishLoop(keys, draws, Moved(keys),
             CollisionDetection(Moved(keys).p, << >>, << >>, lives),
             Autonomous)

\* C25: while the player is Invincible, damaging contact (enemy overlap or
\* hostile projectile overlap) changes nothing: after the tick lives, shield,
\* position and velocity are what they would be without the contact.
InvincibleIgnoresContact ==
  /\ (variant = 1 /\ gameState = "playing") =>
       \A keys \in KeySets : \A draws \in DrawSets(keys) :
          Moved(keys).p.isInvincible =>
             /\ gameLoop(keys, draws).player = Uncontested1(keys, draws).player
             /\ gameLoop(keys, draws).lives = Uncontested1(keys, draws).lives
             /\ gameLoop(keys, draws).gameState
                  = Uncontested1(keys, draws).gameState
  /\ (variant = 2 /\ gameState = "playing" /\ isInvincible
                  /\ Len(gameEntities) <= MaxRegistry) =>
       \A dt \in DeltaTimes : \A keys \in SUBSET Keys2 :
          Unharmed2(Simulate(keys, dt), keys)

\* C25, witness: the second App's player is invincible and the coming frame
\* brings the mini-virus onto the player
ContactWhileInvincible ==
  /\ variant = 2 /\ gameState = "playing" /\ isInvincible
  /\ Len(gameEntities) <= MaxRegistry
  /\ Contested(Simulate({}, 1))

\* C26: Shielded and Invincible are mutually exclusive: in no reachable
\* state are hasShield and isInvincible both true, in whatever order the
\* shield and invincibility power-ups and the damage events occur.
ShieldExcludesInvincible ==
  /\ ~(player.hasShield /\ player.isInvincible)
  /\ ~(hasShield /\ isInvincible)

\* variant 1: the health enemy e has lost when the tick has led to ens
Lost1(e, ens) ==
  IF \E j \in 1..Len(ens) : ens[j].id = e.id
  THEN LET j == CHOOSE j \in 1..Len(ens) : ens[j].id = e.id
       IN Coalesce(e.health, 1) - Coalesce(ens[j].health, 1)
  ELSE 0

\* variant 2: the health the object at reference r has lost in s
Lost2(s, r) == Coalesce(objects[r].health, 1) - Coalesce(s.objs[r].health, 1)

\* variant 2: with one player projectile in the registry a after the
\* shooting step, the frame's result s shows at most one decrement of health,
\* of one entity, and no player projectile once a decrement was made
SingleHit2(a, s) ==
  PlayerShots2(a.ents, a.objs) = 1 =>
     /\ s.hits > 0 => PlayerShots2(s.merged, s.objs) = 0
     /\ \A r \in DOMAIN objects : Lost2(s, r) <= 1
     /\ Cardinality({r \in DOMAIN objects : Lost2(s, r) > 0}) <= 1

\* C27: a single player projectile causes at most one health decrement in
\* total: a tick with one player projectile takes at most 1 health from at
\* most one entity, and the projectile that has hit is removed.
OneShotOneHit ==
  /\ (variant = 1 /\ gameState = "playing" /\ PlayerShots(projectiles) = 1) =>
       \A keys \in KeySets : \A draws \in DrawSets(keys) :
          LET ens == gameLoop(keys, draws).enemies
              hurt == {i \in 1..Len(enemies) : Lost1(enemies[i], ens) > 0}
          IN /\ \A i \in 1..Len(enemies) : Lost1(enemies[i], ens) <= 1
             /\ Cardinality(hurt) <= 1
             /\ hurt # {} =>
                  PlayerShots(gameLoop(keys, draws).projectiles) = 0
  /\ (variant = 2 /\ gameState = "playing"
                  /\ Len(gameEntities) <= MaxRegistry) =>
       \A dt \in DeltaTimes : \A keys \in SimKeys :
          SingleHit2(Shooting(keys), Simulate(keys, dt))

\* variant 2: b is the frame after the X-axis pass, a after the Y-axis pass,
\* s after the entity logic.  When the player has fallen below the level and
\* nothing else of the frame acts on lives or shield (no box struck, nothing
\* harmful on the respawned player), the frame takes exactly one life, puts
\* the player at the spawn point at rest if lives remain, and leaves the
\* shield as it was.
Fallen2(a, s, keys) ==
  (a.p.y > Px(GAME_HEIGHT) /\ a.fx = NoEffects /\ ~Contested(s)) =>
     LET r == Interact(s, keys)
     IN /\ r.state.lives = lives - 1
        /\ r.state.hasShield = hasShield
        /\ r.state.isInvincible = isInvincible
        /\ r.state.lives > 0 =>
             /\ r.playerState.x = Px(SPAWN_X2) /\ r.playerState.y = Px(SPAWN_Y2)
             /\ r.playerState.vx = 0 /\ r.playerState.vy = 0

Jumped2(a, s, keys) ==
  /\ ~playerState.onGround =>
       /\ a.p.vy = playerState.vy
       /\ s.p.vy \in {Min(Px(TERMINAL_VELOCITY), playerState.vy + GRAVITY2), 0}
  /\ (playerState.onGround /\ "up" \in keys) =>
       /\ a.p.vy = -Px(JUMP_STRENGTH)
       /\ ~a.p.onGround
       /\ ~s.p.onGround

\* C29: the jump impulse is applied only on a tick at whose start the player
\* is grounded: an airborne player's vertical velocity only takes gravity
\* (or is stopped by a collision or a respawn) whatever keys are held, and a
\* tick that applies the impulse ends with the player not grounded.
JumpOnlyWhenGrounded ==
  /\ (variant = 1 /\ gameState = "playing") =>
       \A keys \in KeySets :
          /\ ~player.onGround =>
               Moved(keys).p.vy \in {player.vy + GRAVITY, 0}
          /\ (player.onGround /\ "up" \in keys) =>
               /\ Moved(keys).p.vy \in {JUMP_FORCE + GRAVITY, 0}
               /\ ~Moved(keys).lifeLost => ~Moved(keys).p.onGround
  /\ (variant = 2 /\ gameState = "playing"
                  /\ Len(gameEntities) <= MaxRegistry) =>
       \A dt \in DeltaTimes : \A keys \in SUBSET Keys2 :
          Jumped2(Shooting(keys), Simulate(keys, dt), keys)

\* C29, witness: the second App's player is in the air and rising after a
\* jump: holding the jump key now is the case of the claim
RisingInAir ==
  /\ variant = 2 /\ gameState = "playing"
  /\ ~playerState.onGround /\ playerState.vy < 0

\* the vertical velocity of the first App's tick after the jump and gravity
FallSpeed1(keys) ==
  (IF "up" \in keys /\ player.onGround THEN JUMP_FORCE ELSE player.vy) + GRAVITY

\* the first App's player came down onto the top of entity e: its bottom
\* edge was at or above e's top before the move, the move carried it below,
\* and it ends resting on that top
LandedOn1(e, vy0, post) ==
  /\ Collidable(e)
  /\ vy0 > 0
  /\ player.y + PLAYER_HEIGHT <= e.y
  /\ player.y + vy0 + PLAYER_HEIGHT > e.y
  /\ post.y + PLAYER_HEIGHT = e.y

\* the same for the second App: b the player before the move along y, a the
\* player after the Y pass
LandedOn2(e, b, a, dt) ==
  /\ e.type \in {"platform", "powerupBox", "firewall"}
  /\ b.vy > 0
  /\ b.y + Px(PLAYER_HEIGHT2) <= e.y
  /\ b.y + b.vy * dt + Px(PLAYER_HEIGHT2) > e.y
  /\ a.y + Px(PLAYER_HEIGHT2) = e.y

Grounded2(b, a, dt) ==
  a.p.onGround <=>
    \E i \in 1..Len(a.ents) : LandedOn2(a.objs[a.ents[i]], b.p, a.p, dt)

RunSpeed1(keys) ==
  IF "right" \in keys THEN PLAYER_SPEED
  ELSE IF "left" \in keys THEN -PLAYER_SPEED ELSE 0

\* the first App's move of this tick comes onto a corner of platform e: the
\* moved box overlaps e, the bottom edge crosses e's top from above and one
\* side edge crosses a side of e
Corner1(e, keys) ==
  /\ e.type = "platform"
  /\ checkCollision(Rect(player.x + RunSpeed1(keys),
                         player.y + FallSpeed1(keys),
                         PLAYER_WIDTH, PLAYER_HEIGHT), e)
  /\ player.y + PLAYER_HEIGHT <= e.y
  /\ \/ player.x + PLAYER_WIDTH <= e.x
     \/ player.x >= e.x + e.width

\* the same for the second App; m: the player after "Apply physics", the
\* move along x made
Corner2(e, m, dt) ==
  /\ e.type = "platform"
  /\ checkCollision(PlayerBox([m EXCEPT !.y = @ + m.vy * dt]), e)
  /\ playerState.y + Px(PLAYER_HEIGHT2) <= e.y
  /\ \/ playerState.x + Px(PLAYER_WIDTH2) <= e.x
     \/ playerState.x >= e.x + e.width

\* the second App's corner landing: m as above, a the record after the
\* Y pass
CornerLanding2(m, a, dt) ==
  \A i \in 1..Len(a.ents) :
     Corner2(a.objs[a.ents[i]], m, dt) =>
       /\ a.p.y + Px(PLAYER_HEIGHT2) = a.objs[a.ents[i]].y
       /\ a.p.vy = 0
       /\ a.p.onGround
       /\ a.p.x = m.x

\* C31: when the player's move of one tick overlaps a platform while
\* crossing both its top edge from above and one of its side edges, the
\* player lands on top (y snapped to the platform's top, vy = 0, grounded)
\* and is not pushed horizontally.
CornerLandsOnTop ==
  /\ (variant = 1 /\ gameState = "playing") =>
       \A keys \in KeySets : \A i \in 1..Len(level) :
          (Corner1(level[i], keys) /\ ~Moved(keys).lifeLost) =>
            /\ Moved(keys).p.y + PLAYER_HEIGHT = level[i].y
            /\ Moved(keys).p.vy = 0
            /\ Moved(keys).p.onGround
            /\ Moved(keys).p.x = player.x + RunSpeed1(keys)
  /\ (variant = 2 /\ gameState = "playing"
                  /\ Len(gameEntities) <= MaxRegistry) =>
       \A dt \in DeltaTimes : \A keys \in SUBSET Keys2 :
          CornerLanding2(PhysicsX(Shooting(keys).p, dt),
                         YAxis(XAxis(Shooting(keys), dt), dt), dt)

\* C31, witness: the second App's player has come down onto the corner of
\* the platform: it stands on the platform's top with its left edge still
\* left of the platform's side, and keeps the speed of its run
StandsOnCorner ==
  /\ variant = 2 /\ gameState = "playing"
  /\ playerState.onGround /\ playerState.vy = 0
  /\ playerState.vx > 0
  /\ \E i \in 1..Len(gameEntities) :
        /\ objects[gameEntities[i]].type = "platform"
        /\ playerState.y + Px(PLAYER_HEIGHT2) = objects[gameEntities[i]].y
        /\ playerState.x < objects[gameEntities[i]].x
        /\ playerState.x + Px(PLAYER_WIDTH2) > objects[gameEntities[i]].x

\* one step n of the first App's Mini-Virus e keeps it in its range, and a
\* step that would leave the range puts it on the bound and turns it round
Patrolled1(e, n) ==
  /\ e.patrolStart <= n.x /\ n.x + n.width <= e.patrolEnd
  /\ e.x + e.vx < e.patrolStart =>
       n.x = e.patrolStart /\ n.vx = -e.vx /\ n.direction = "right"
  /\ e.x + e.vx + e.width > e.patrolEnd =>
       n.x = e.patrolEnd - e.width /\ n.vx = -e.vx /\ n.direction = "left"

\* the position of the second App's mini-virus e is within its range
InRange2(e) == e.patrolStart <= e.x /\ e.x <= e.patrolEnd

\* C32: a patrol enemy stays within its patrol range on every tick
\* (patrolStart <= x and, in variant 1, x + width <= patrolEnd; in variant 2,
\* x <= patrolEnd), and on reaching a bound its position is clamped to that
\* bound and its direction is reversed exactly once.
PatrolStaysInRange ==
  /\ \A i \in 1..Len(enemies) :
        enemies[i].type = "Mini-Virus" =>
          /\ enemies[i].patrolStart <= enemies[i].x
          /\ enemies[i].x + enemies[i].width <= enemies[i].patrolEnd
          /\ Patrolled1(enemies[i], MiniVirusStep(enemies[i]))
  /\ \A r \in DOMAIN objects :
        (objects[r].type = "enemy" /\ objects[r].subtype = "mini-virus") =>
          InRange2(objects[r])

\* the first App's half of the patrol property
PatrolStaysInRange1 ==
  \A i \in 1..Len(enemies) :
     enemies[i].type = "Mini-Virus" =>
       /\ enemies[i].patrolStart <= enemies[i].x
       /\ enemies[i].x + enemies[i].width <= enemies[i].patrolEnd
       /\ Patrolled1(enemies[i], MiniVirusStep(enemies[i]))

\* tick result r of the first App left The Adware King e as it was and holds
\* no shot at its muzzle
BossInert1(r, e) ==
  /\ \A j \in 1..Len(r.enemies) :
        r.enemies[j].id = e.id =>
          /\ r.enemies[j].x = e.x /\ r.enemies[j].y = e.y
          /\ r.enemies[j].direction = e.direction
          /\ r.enemies[j].shootCooldown = e.shootCooldown
  /\ \A k \in 1..Len(r.projectiles) :
        ~(/\ r.projectiles[k].owner = "enemy"
          /\ r.projectiles[k].x = e.x
          /\ r.projectiles[k].y = e.y + BOSS_SHOT_DY)

\* the result s of Simulate left the boss at reference b as it was, holds
\* no shot of its burst, and left bossCooldown as it was
BossInert2(s, b) ==
  /\ s.objs[b].x = objects[b].x /\ s.objs[b].y = objects[b].y
  /\ s.objs[b].direction = objects[b].direction
  /\ s.bossCooldown = bossCooldown
  /\ \A k \in 1..Len(s.merged) :
        ~(/\ s.objs[s.merged[k]].type = "enemyProjectile"
          /\ s.objs[s.merged[k]].width = Px(BOSS_SHOT_SIZE))

\* the frame whose simulation gave s did not activate a boss
Dormant2(s) ==
  s.p.x <= Px(BOSS_THRESHOLD_X2) =>
    \A i \in 1..Len(gameEntities) :
       objects[gameEntities[i]].type = "boss" => BossInert2(s, gameEntities[i])

\* C33: the boss is inert until activated: on a tick on which the
\* activation condition (player x beyond the threshold and, in variant 1,
\* firewall 999 active) does not hold and has not held before, the boss's
\* position, direction and fire cooldown are unchanged and the boss creates
\* no projectile.
BossInertUntilActivated ==
  /\ (variant = 1 /\ gameState = "playing") =>
       \A keys \in KeySets : \A draws \in DrawSets(keys) :
          ~BossActive(player.x, level) =>
            \A i \in 1..Len(enemies) :
               enemies[i].type = "The Adware King" =>
                 BossInert1(gameLoop(keys, draws), enemies[i])
  /\ (variant = 2 /\ gameState = "playing"
                  /\ Len(gameEntities) <= MaxRegistry) =>
       \A dt \in DeltaTimes : \A keys \in SUBSET Keys2 :
          Dormant2(Simulate(keys, dt))

\* C33, witness: frames have run, the player has walked and stays short of
\* the threshold, and the second App's boss is in the registry
BossAwaitsPlayer ==
  /\ variant = 2 /\ gameState = "playing"
  /\ playerState.x > Px(SPAWN_X2)
  /\ playerState.x <= Px(BOSS_THRESHOLD_X2)
  /\ \E i \in 1..Len(gameEntities) : objects[gameEntities[i]].type = "boss"

\* the frame of the second App struck box r from below: b the player before
\* the move along y, a the record after the Y pass
StruckFromBelow2(b, a, r) ==
  (a.objs[r].type = "powerupBox" /\ a.objs[r].hit /\ ~objects[r].hit) =>
    /\ b.vy < 0
    /\ b.y >= a.objs[r].y + a.objs[r].height

\* the power-up property over one frame of the second App
BoxStrikes2(b, a) == \A r \in DOMAIN objects : StruckFromBelow2(b, a, r)

\* C34: a power-up box triggers only when the player strikes its underside
\* while moving upward (the player's top edge was at or below the box's
\* bottom edge before the move); overlapping or touching the box from the
\* side or from above, even while moving upward, never triggers it.
BoxOnlyFromBelow ==
  /\ (variant = 1 /\ gameState = "playing") =>
       \A keys \in KeySets : \A i \in BoxesHit(Checked(keys).p, level) :
          /\ Moved(keys).p.vy < 0
          /\ player.y >= level[i].y + level[i].height
  /\ (variant = 2 /\ gameState = "playing"
                  /\ Len(gameEntities) <= MaxRegistry) =>
       \A dt \in DeltaTimes : \A keys \in SUBSET Keys2 :
          BoxStrikes2(XAxis(Shooting(keys), dt).p,
                      YAxis(XAxis(Shooting(keys), dt), dt))

\* console c of the first App's level lvl is linked to no firewall
Orphan1(lvl, c) ==
  LET k == FindIndex(lvl, c.linkedElementId, 1)
  IN c.type = "console" /\ (k = 0 \/ lvl[k].type # "firewall")

\* the object c of the second App is a console whose target is no firewall
\* of the registry
Orphan2(c) ==
  /\ c.type = "console"
  /\ \A j \in 1..Len(gameEntities) :
        ~(/\ objects[gameEntities[j]].id = c.targetId
          /\ objects[gameEntities[j]].type = "firewall")

\* the frame with result r left the orphaned console at reference q alone
Untouched2(r, q) ==
  /\ \E j \in 1..Len(r.gameEntities) : r.gameEntities[j] = q
  /\ r.objects[q] = objects[q]
  /\ objects[q].id \notin Ids(r.fired)

Orphans2(r) ==
  \A j \in 1..Len(gameEntities) :
     Orphan2(objects[gameEntities[j]]) => Untouched2(r, gameEntities[j])

\* C35: interacting with a console whose linked id refers to no existing
\* entity (or to an entity that is not a firewall) has no effect on any
\* tick: no entity is modified or removed, the console itself is unchanged
\* and no message is shown.
OrphanConsoleInert ==
  /\ (variant = 1 /\ gameState = "playing") =>
       \A keys \in KeySets : \A draws \in DrawSets(keys) :
          \A i \in 1..Len(level) :
             Orphan1(level, level[i]) =>
               /\ gameLoop(keys, draws).level = level
               /\ level[i].id \notin Ids(gameLoop(keys, draws).fired)
  /\ (variant = 2 /\ gameState = "playing"
                  /\ Len(gameEntities) <= MaxRegistry) =>
       \A dt \in DeltaTimes : \A keys \in SUBSET Keys2 :
          Orphans2(gameLoop2(keys, dt))

\* the first App's half of the console property
OrphanConsoleInert1 == variant = 1 => OrphanConsoleInert

\* the enemies and the projectiles of the first App as this tick's enemy
\* logic and projectile advance leave them
FreshEnemies == EnemyLogic(enemies, player.x, level)

FreshProjectiles ==
  SelectSeq([i \in 1..Len(projectiles) |-> MoveProjectile(projectiles[i])],
            LAMBDA pr : InView(pr, cameraX))

\* the second App's frame that goes on from s takes a life or the shield
\* when something harmful lies on the player after the entities' move
FreshContact2(s, keys) ==
  (Contested(s) /\ ~isInvincible) =>
    \/ Interact(s, keys).state.lives < Uncontested(s, keys).state.lives
    \/ Interact(s, keys).state.hasShield # Uncontested(s, keys).state.hasShield

\* C36: within one tick the player-versus-enemy contact check and the
\* projectile-versus-enemy and projectile-versus-player checks use the enemy
\* and projectile positions already updated by that tick's enemy logic and
\* projectile advance, not the positions left by the previous tick: the
\* tick's checks give what they give on the updated positions.
ChecksUseUpdatedPositions ==
  /\ (variant = 1 /\ gameState = "playing") =>
       \A keys \in KeySets :
          /\ Checked(keys) =
               CollisionDetection(Moved(keys).p, FreshEnemies,
                                  FreshProjectiles, lives)
          /\ DamageEnemies(FreshEnemies, projectiles, enemies) =
               DamageEnemies(FreshEnemies, FreshProjectiles, FreshEnemies)
  /\ (variant = 2 /\ gameState = "playing"
                  /\ Len(gameEntities) <= MaxRegistry) =>
       \A dt \in DeltaTimes : \A keys \in SUBSET Keys2 :
          FreshContact2(Simulate(keys, dt), keys)

\* the second App's half of the property
ChecksUseUpdatedPositions2 == variant = 2 => ChecksUseUpdatedPositions

\* a step taken while the game is not being played, other than the restart
\* that leaves the state, changes nothing of the gameplay
FrozenStep ==
  (gameState \notin {"playing", "paused"} /\ gameState' = gameState) =>
    /\ UNCHANGED << player, lives, enemies, level, projectiles >>
    /\ UNCHANGED << playerState, gameEntities, objects >>

\* C37: while the game state is start, win or lose (variant 2: gameOver,
\* levelComplete), no key event and no tick changes gameplay state: player,
\* lives, enemies, level and the projectile list stay as they were when the
\* state was entered; a shoot key event in win or lose creates no projectile.
FrozenWhenNotPlaying == [][FrozenStep]_vars

\* C38: in variant 1 the boss-wall firewall (id 999) is active in every
\* reachable state of a session: the only console (id 12) is linked to
\* firewall 10, so no sequence of interactions deactivates firewall 999 and
\* it stays collidable for the whole session.
BossWallStaysActive ==
  variant = 1 =>
    \A k \in 1..Len(level) :
       level[k].id = BOSS_WALL_ID =>
         level[k].type = "firewall" /\ level[k].active /\ Collidable(level[k])

\* C38, witness: console 12 has been operated, its firewall 10 is off, and
\* the boss wall is in the level
ConsoleUsedWallStands ==
  /\ variant = 1 /\ gameState = "playing"
  /\ \E k \in 1..Len(level) : level[k].id = 10 /\ ~level[k].active
  /\ \E k \in 1..Len(level) : level[k].id = BOSS_WALL_ID

\* every projectile in flight has a horizontal velocity
ProjectilesKeepMoving ==
  /\ \A i \in 1..Len(projectiles) : projectiles[i].vx # 0
  /\ \A i \in 1..Len(gameEntities) :
        IsProjectile(objects[gameEntities[i]]) =>
          objects[gameEntities[i]].vx # 0

\* the simulation s of a frame of the second App advanced every projectile
\* by its velocity, and kept none that left [0, LEVEL_WIDTH]
Advanced2(s, dt) ==
  \A i \in 1..Len(gameEntities) :
     LET r == gameEntities[i] IN
     IsProjectile(objects[r]) =>
       /\ s.objs[r].x = objects[r].x + objects[r].vx * dt
       /\ s.objs[r].vx = objects[r].vx
       /\ (s.objs[r].x < 0 \/ s.objs[r].x > Px(LEVEL_WIDTH2)) =>
            \A j \in 1..Len(s.merged) : s.merged[j] # r

ProjectilesAdvance2 ==
  (variant = 2 /\ gameState = "playing" /\ Len(gameEntities) <= MaxRegistry) =>
     \A dt \in DeltaTimes : \A keys \in SUBSET Keys2 :
        Advanced2(Simulate(keys, dt), dt)

NeverWon1 ==
  variant = 1 =>
    /\ gameState # "win"
    /\ \A i \in 1..Len(level) :
          (level[i].id = BOSS_WALL_ID /\ levelData = GateLevel) =>
             player.x + PLAYER_WIDTH <= level[i].x

=============================================================================
